---- MODULE Spec2Model ----
(***************************************************************************)
(* Model of the Dark Pattern Detector content script                       *)
(* (src/dark-pattern-detector-extension/content.js): the scan session,     *)
(* the candidate extractor, the batch dispatcher with its per-candidate    *)
(* verification race, the decision loop and the mutation-driven debounce.  *)
(*                                                                         *)
(* Texts are sequences of word tokens.  Scores are percentages (0.6 is 60).*)
(* Time advances in ticks of 250 ms.  A handler of the event loop (a       *)
(* message, a timer, a promise continuation with every microtask it        *)
(* triggers) is one action.                                                *)
(*                                                                         *)
(* Spec          the whole session on a small document                     *)
(* SpecUnpaused  the same session when nobody ever pauses it               *)
(* SpecDispatch  one page load with richer documents: extraction, batch    *)
(*               dispatch and decisions                                    *)
(* SpecBatch     one page load scanned with batches of 1 and of 3          *)
(* SpecConfig    one page load with a patterns.txt that may hold an empty  *)
(*               section                                                   *)
(* SpecBridge    the offscreen bridge (offscreen.js) between background    *)
(*               and sandbox                                               *)
(* SpecSandbox   the sandbox verifier (safe-web-extension/sandbox.js)      *)
(* SpecLoader    the in-page loader (safe-web-extension/lib/tf-stub.js)    *)
(* SpecCosine    cosineSimilarity of tf-stub.js on small vectors           *)
(* SpecDispatchLive  SpecDispatch with the timers and promises that the    *)
(*               event loop is bound to run                                *)
(* SpecLate      scans whose abandoned verifier calls settle late, and     *)
(*               the bridge with responses after the timeout               *)
(* SpecAbort     one page load whose scans may abort: empty PATTERNS or a  *)
(*               document without body                                     *)
(* SpecDetach    SpecDispatch with nodes that leave the document while a   *)
(*               batch is awaited                                          *)
(* SpecQuiet     one page load left alone: scans, their highlights and the *)
(*               observer until the page is at rest                        *)
(* SpecRouter    the background router (safe-web-extension/background.js)  *)
(*               and its offscreen document                                *)
(* SpecSafeWeb   the Safe Web v2.0 content script                          *)
(*               (safe-web-extension/content.js)                           *)
(***************************************************************************)
EXTENDS Integers, Sequences, FiniteSets, TLC

\* ------------------------------------------------------------------------
\* Bounds of the model
\* ------------------------------------------------------------------------

\* The document holds at most this many text nodes (caps the Mutation action).
MaxNodes == 1
\* Requests the background sends through the offscreen bridge
MaxRequests == 2
\* Messages the sandbox receives
MaxCalls == 3
\* Load attempts of the sandbox verifier
MaxLoads == 2
\* Calls of the in-page loader (the auto-load included)
MaxLoaderCalls == 3
\* Messages the background router receives from content scripts
MaxRouterRequests == 3
\* Activations of scanAndHighlight in the Safe Web v2.0 content script (the
\* one started by the startup timer included)
MaxSafeWebScans == 2

\* ------------------------------------------------------------------------
\* Program constants
\* ------------------------------------------------------------------------

BATCH_SIZE == 3
\* aiResult.score > 0.6, in percent
ACCEPT_THRESHOLD == 60
\* setTimeout(..., 750) in ticks of 250 ms
DEBOUNCE_TICKS == 3
\* timeoutPromise(5000) in ticks of 250 ms
AI_TIMEOUT_TICKS == 20
\* context.substring(0, 300): the context window, scaled to word tokens
CONTEXT_LIMIT == 2
\* finalScore = "Regex Fallback"
REGEX_FALLBACK == -1
\* an entry pushed for an existing highlight carries no aiScore
NO_AI_SCORE == -2
\* scanTimeout when no debounce timer is pending
NO_TIMER == -1
\* let finalScore = "Regex"
REGEX_ONLY == -3

\* maxSim > 0.7, in percent
HIGH_CONFIDENCE == 70
\* score > 0.5, in percent
MEDIUM_CONFIDENCE == 50

\* ------------------------------------------------------------------------
\* Regular expressions with the global flag
\* ------------------------------------------------------------------------

Min(S) == CHOOSE x \in S : \A y \in S : x <= y

\* A token of word characters; the ellipsis of a truncated context is none
WordToken(tok) == tok # "..."

\* \b at offset q: a word ends or starts there
WordBoundary(text, q) ==
    \/ q >= 1 /\ q <= Len(text) /\ WordToken(text[q])
    \/ q + 1 <= Len(text) /\ WordToken(text[q + 1])

\* RegExp.prototype.test of a /g regex \b(k1|k2|...)\b that matches any word
\* of kws: the search starts at lastIndex; a match leaves lastIndex after the
\* match, a failure resets it to 0.  Offsets are 0-based, text[p] covers
\* [p-1, p).  With no keyword the regex is \b()\b, which matches the empty
\* string at the first word boundary from lastIndex on.
RegexTest(kws, text, lastIndex) ==
    LET hits == IF kws = {}
                THEN {q \in lastIndex..Len(text) : WordBoundary(text, q)}
                ELSE {p \in 1..Len(text) : p - 1 >= lastIndex /\ text[p] \in kws}
    IN  IF lastIndex > Len(text) \/ hits = {}
        THEN [ok |-> FALSE, lastIndex |-> 0]
        ELSE [ok |-> TRUE, lastIndex |-> Min(hits)]

\* IGNORED_PATTERNS: each entry is the set of words its regex matches.
IGNORED_PATTERNS == << {"rights"}, {"privacy"} >>

\* createPatternObject: strictRegex is built from the same source as
\* broadRegex; both are separate RegExp objects with their own lastIndex.
createPatternObject(type, keywordList) ==
    [type |-> type,
     broadRegex |-> keywordList, broadLastIndex |-> 0,
     strictRegex |-> keywordList, strictLastIndex |-> 0]

\* parsePatterns on the sections of patterns.txt: one pattern per section.
parsePatterns(sections) ==
    [k \in 1..Len(sections) |->
        createPatternObject(sections[k].name, sections[k].keywords)]

\* The shipped patterns.txt, reduced to two categories.
PatternsTxt ==
    << [name |-> "Urgency", keywords |-> {"hurry"}],
       [name |-> "Scarcity", keywords |-> {"stock"}] >>

\* A patterns.txt in which the section [Nagging] lists no keyword
PatternsTxtEmptySection ==
    << [name |-> "Urgency", keywords |-> {"hurry"}],
       [name |-> "Nagging", keywords |-> {}] >>

\* ------------------------------------------------------------------------
\* The document: a sequence of text nodes
\*   content  : node.nodeValue
\*   ctx      : parent.innerText with whitespace collapsed
\*   visible  : isVisible(parent)
\*   attached : the text node is in the document (parentNode is not null)
\*              and its parent is not a highlight span
\*   hl       : the type of the highlight span that replaced it, or "none"
\* ------------------------------------------------------------------------

Node(content, ctx, visible) ==
    [content |-> content, ctx |-> ctx, visible |-> visible,
     attached |-> TRUE, hl |-> "none"]

NHurry == Node(<<"hurry">>, <<"hurry">>, TRUE)
NBoth == Node(<<"hurry", "stock">>, <<"hurry", "stock">>, TRUE)
NLegalLate == Node(<<"see", "privacy">>, <<"see", "privacy">>, TRUE)
NLegalKw == Node(<<"privacy", "hurry">>, <<"privacy", "hurry">>, TRUE)
NLong == Node(<<"hurry">>, <<"see", "see", "hurry">>, TRUE)
NHidden == Node(<<"stock">>, <<"stock">>, FALSE)
NPlain == Node(<<"welcome">>, <<"welcome">>, TRUE)
\* a highlight span left in the page by an earlier instance of the script
NMarked == [NHurry EXCEPT !.attached = FALSE, !.hl = "Urgency"]

\* Documents of the session scenarios: what the page holds at load
InitialDocs == { <<>>, <<NHurry>>, <<NMarked>> }

\* Documents of the dispatch scenarios: four candidates in two nodes (two
\* batches), legal boilerplate, a keyword beyond the context window, a
\* hidden node
DispatchDocs ==
    { <<NBoth, NBoth>>, <<NLegalLate, NLegalKw>>, <<NLong, NHidden>> }

\* Text nodes the page may add later
MutationNodes == { NHurry }

\* ------------------------------------------------------------------------
\* Candidate extractor (findCandidates)
\* ------------------------------------------------------------------------

\* context.substring(0, 300) + "..." when the context is longer than the limit
Truncate(ctx) ==
    IF Len(ctx) > CONTEXT_LIMIT
    THEN SubSeq(ctx, 1, CONTEXT_LIMIT) \o <<"...">>
    ELSE ctx

\* for (const ignorePattern of IGNORED_PATTERNS) if (ignorePattern.test(content)) return;
\* The regexes are global: lastIndex (ign[k]) is kept from the previous test.
RECURSIVE IgnoreScan(_, _, _)
IgnoreScan(content, ign, k) ==
    IF k > Len(IGNORED_PATTERNS)
    THEN [ignored |-> FALSE, ign |-> ign]
    ELSE LET r == RegexTest(IGNORED_PATTERNS[k], content, ign[k])
             ign2 == [ign EXCEPT ![k] = r.lastIndex]
         IN  IF r.ok THEN [ignored |-> TRUE, ign |-> ign2]
             ELSE IgnoreScan(content, ign2, k + 1)

\* Mutant: the broad matcher goes on from where its last test ended
BroadStart_Kept(pattern) == pattern.broadLastIndex

\* What the broad test starts from: pattern.broadRegex.lastIndex = 0
BroadStart(pattern) == 0

\* What the strict test starts from: candidate.pattern.strictRegex.lastIndex = 0
StrictStart(pattern) == 0

\* PATTERNS.forEach(pattern => ...) for one text node, from pattern c on
RECURSIVE MatchPatterns(_, _, _, _)
MatchPatterns(n, node, st, c) ==
    IF c > Len(st.pats) THEN st
    ELSE LET r == RegexTest(st.pats[c].broadRegex, node.content, BroadStart(st.pats[c]))
             pats2 == [st.pats EXCEPT ![c].broadLastIndex = r.lastIndex]
             cand == [node |-> n, content |-> node.content,
                      context |-> Truncate(node.ctx), pattern |-> c]
         IN  MatchPatterns(n, node,
                 [st EXCEPT !.pats = pats2,
                            !.cands = IF r.ok THEN Append(@, cand) ELSE @],
                 c + 1)

\* Does the ignore list exclude this span?  (the loop over IGNORED_PATTERNS)
IgnoreCheck(content, ign) == IgnoreScan(content, ign, 1)

\* findCandidates(node) for text node n; st = [cands, ign, pats]
VisitTextNode(n, dom, st) ==
    LET node == dom[n]
    IN  IF ~node.attached THEN st
        ELSE IF ~node.visible THEN st
        ELSE LET ig == IgnoreCheck(node.content, st.ign)
             IN  IF ig.ignored THEN [st EXCEPT !.ign = ig.ign]
                 ELSE MatchPatterns(n, node, [st EXCEPT !.ign = ig.ign], 1)

RECURSIVE WalkNodes(_, _, _)
WalkNodes(n, dom, st) ==
    IF n > Len(dom) THEN st
    ELSE WalkNodes(n + 1, dom, VisitTextNode(n, dom, st))

\* findCandidates(document.body)
findCandidates(dom, ign, pats) ==
    WalkNodes(1, dom, [cands |-> <<>>, ign |-> ign, pats |-> pats])

\* ------------------------------------------------------------------------
\* State of the content script
\* ------------------------------------------------------------------------

VARIABLES
    isScanning,        \* let isScanning
    hasScanned,        \* let hasScanned
    isPaused,          \* let isPaused
    lastScanUsedAI,    \* let lastScanUsedAI
    detectionResults,  \* let detectionResults: sequence of [type, text, aiScore]
    PATTERNS,          \* let PATTERNS: sequence of pattern objects
    patternsLoaded,    \* patternsLoadedPromise has settled
    ignoreLastIndex,   \* lastIndex of each regex of IGNORED_PATTERNS
    dom,               \* the document's text nodes
    scanTimeout,       \* ticks left of the pending debounce timer, or NO_TIMER
    observing,         \* observer.observe(document.body, ...) was called
    scan,              \* locals and position of the scanAndHighlight activation
    activeScans,       \* activations of scanAndHighlight past the isScanning guard
    aiTimer,           \* ticks left of the current batch's timeoutPromise timers
    sinceMutation,     \* ticks since the last mutation of the document (saturating)
    aiState,           \* window.SafeWebAI: "absent", "notReady" or "ready"
    storedPaused,      \* chrome.storage.local isPaused
    storagePending,    \* the storage read of isPaused has not called back yet
    batchSize,         \* const BATCH_SIZE of the running build
    patternsTxt,       \* the sections of the patterns.txt the build ships
    hasBody,           \* document.body is not null
    \* the offscreen document (offscreen bridge)
    requestIdCounter,  \* let requestIdCounter
    pendingRequests,   \* const pendingRequests: id -> the request whose resolve it holds
    requests,          \* the promises sendToSandbox has returned, in call order
    iframeWindow,      \* iframe.contentWindow is there
    posted,            \* messages posted to the sandbox, not yet handled by it
    responses,         \* messages posted by the sandbox, not yet delivered
    \* the sandboxed iframe (sandbox.js)
    modelReady,        \* let modelReady
    loadingPromise,    \* let loadingPromise
    useModel,          \* let useModel: the load attempt that set it, 0 for null
    exampleEmbeddings, \* let exampleEmbeddings: the load attempt that set it, 0 for null
    libraries,         \* tf and use are defined
    loads,             \* the load attempts initModel has started, in order
    calls,             \* the message handlers of the sandbox, in order of arrival
    \* the in-page loader (lib/tf-stub.js)
    loader,            \* its module-level lets, window.SafeWebAI.isReady, its calls
    \* cosineSimilarity on its own
    vecA,              \* the first argument
    vecB,              \* the second argument
    similarity,        \* the value returned for them, once computed
    \* the background service worker (background.js)
    router,            \* the offscreen document as the platform has it, the requests
    \* the Safe Web v2.0 content script (safe-web-extension/content.js)
    safeWeb            \* its lets, its document, its scanAndHighlight activations

vars == << isScanning, hasScanned, isPaused, lastScanUsedAI, detectionResults,
           PATTERNS, patternsLoaded, ignoreLastIndex, dom, scanTimeout,
           observing, scan, activeScans, aiTimer, sinceMutation, aiState,
           storedPaused, storagePending, batchSize, patternsTxt, hasBody,
           requestIdCounter, pendingRequests, requests, iframeWindow, posted,
           responses, modelReady, loadingPromise, useModel, exampleEmbeddings,
           libraries, loads, calls, loader, vecA, vecB, similarity, router,
           safeWeb >>

\* The content script's own state
contentVars ==
    << isScanning, hasScanned, isPaused, lastScanUsedAI, detectionResults,
       PATTERNS, patternsLoaded, ignoreLastIndex, dom, scanTimeout,
       observing, scan, activeScans, aiTimer, sinceMutation, aiState,
       storedPaused, storagePending, batchSize, patternsTxt, hasBody >>

\* The offscreen document's state
offscreenVars ==
    << requestIdCounter, pendingRequests, requests, iframeWindow, posted,
       responses >>

\* The sandbox's state
sandboxVars ==
    << modelReady, loadingPromise, useModel, exampleEmbeddings, libraries,
       loads, calls >>

\* The in-page loader's state
loaderVars == << loader >>

\* The arguments and the result of the cosineSimilarity under test
cosineVars == << vecA, vecB, similarity >>

\* The background router's state
routerVars == << router >>

\* The state of the Safe Web v2.0 content script
safeWebVars == << safeWeb >>

\* What no handler of the content script writes
outside ==
    << batchSize, patternsTxt, hasBody, offscreenVars, sandboxVars, loaderVars,
       cosineVars, routerVars, safeWebVars >>

\* The state a handler works on, as one record
St ==
    [isScanning |-> isScanning, hasScanned |-> hasScanned, isPaused |-> isPaused,
     lastScanUsedAI |-> lastScanUsedAI, detectionResults |-> detectionResults,
     PATTERNS |-> PATTERNS, patternsLoaded |-> patternsLoaded,
     ignoreLastIndex |-> ignoreLastIndex, dom |-> dom, scanTimeout |-> scanTimeout,
     observing |-> observing, scan |-> scan, activeScans |-> activeScans,
     aiTimer |-> aiTimer, sinceMutation |-> sinceMutation, aiState |-> aiState,
     batchSize |-> batchSize, hasBody |-> hasBody]

\* The handler's result becomes the next state
Apply(s) ==
    /\ isScanning' = s.isScanning
    /\ hasScanned' = s.hasScanned
    /\ isPaused' = s.isPaused
    /\ lastScanUsedAI' = s.lastScanUsedAI
    /\ detectionResults' = s.detectionResults
    /\ PATTERNS' = s.PATTERNS
    /\ patternsLoaded' = s.patternsLoaded
    /\ ignoreLastIndex' = s.ignoreLastIndex
    /\ dom' = s.dom
    /\ scanTimeout' = s.scanTimeout
    /\ observing' = s.observing
    /\ scan' = s.scan
    /\ activeScans' = s.activeScans
    /\ aiTimer' = s.aiTimer
    /\ sinceMutation' = s.sinceMutation
    /\ aiState' = s.aiState
    /\ UNCHANGED outside

\* aiResult = null
NullResult ==
    [present |-> FALSE, score |-> 0, type |-> "", fallback |-> FALSE, error |-> FALSE]

\* What predictDarkPattern may resolve with (score 0 stands for no score)
Answer(score, type, fallback, error) ==
    [present |-> TRUE, score |-> score, type |-> type,
     fallback |-> fallback, error |-> error]

VerifierAnswers ==
    { Answer(85, "fakeUrgency", FALSE, FALSE),
      Answer(60, "fakeUrgency", FALSE, FALSE),
      Answer(0, "", TRUE, TRUE) }

\* events: the scanProgress messages the activation has sent
\* ready: the resultsReady messages the activation has sent
\* abandoned: the candidates whose predictDarkPattern promise lost the race
\* against the deadline and has not settled yet
IdleScan ==
    [pc |-> "idle", candidates |-> <<>>, i |-> 0, slots |-> <<>>,
     found |-> FALSE, results |-> <<>>, mutated |-> FALSE, existing |-> 0,
     events |-> <<>>, abandoned |-> {}, ready |-> <<>>]

\* ------------------------------------------------------------------------
\* Change monitor
\* ------------------------------------------------------------------------

\* Mutant: the observer's callback has no guard
ObserverCallback_NoGuard(s) == [s EXCEPT !.scanTimeout = DEBOUNCE_TICKS]

\* The MutationObserver callback
ObserverCallback(s) ==
    IF s.isPaused \/ s.isScanning THEN s
    ELSE [s EXCEPT !.scanTimeout = DEBOUNCE_TICKS]

\* Mutation records are delivered only after observer.observe(...)
DeliverMutations(s) == IF s.observing THEN ObserverCallback(s) ELSE s

\* ------------------------------------------------------------------------
\* scanAndHighlight
\* ------------------------------------------------------------------------

\* Mutant: the span is put in place whether or not the node has a parent
highlightTextNode_NoParentCheck(s, n, type) ==
    [s EXCEPT !.dom[n].attached = FALSE, !.dom[n].hl = type,
              !.scan.mutated = TRUE, !.sinceMutation = 0]

\* Mutant: the node is wrapped in a span that findCandidates does not
\* recognise, so its text stays a candidate
highlightTextNode_Unmarked(s, n, type) ==
    IF s.dom[n].attached
    THEN [s EXCEPT !.scan.mutated = TRUE, !.sinceMutation = 0]
    ELSE s

\* highlightTextNode: replaces the text node by a highlight span, unless the
\* node has no parent any more
highlightTextNode(s, n, type) ==
    IF s.dom[n].attached
    THEN [s EXCEPT !.dom[n].attached = FALSE, !.dom[n].hl = type,
                   !.scan.mutated = TRUE, !.sinceMutation = 0]
    ELSE s

\* aiResult && !aiResult.fallback && !aiResult.error
AIWorking(ai) == ai.present /\ ~ai.fallback /\ ~ai.error

\* Mutant: the threshold itself is accepted (>= instead of >)
ScoreAccepts_AtLeast(ai) == ai.score # 0 /\ ai.score >= ACCEPT_THRESHOLD

\* aiResult.score && aiResult.score > 0.6
ScoreAccepts(ai) == ai.score # 0 /\ ai.score > ACCEPT_THRESHOLD

\* Mutant: the strict matcher is given the context window
StrictInput_Context(cand) == cand.context

\* The text handed to the strict matcher: candidate.content
StrictInput(cand) == cand.content

\* Mutant: the fallback branch is taken only for a flagged result object, so
\* a null aiResult (timeout, rejection) is dropped
UsesStrict_FlaggedOnly(ai) == ai.present /\ (ai.fallback \/ ai.error)

\* May the strict matcher decide this candidate?  (the else branch)
UsesStrict(ai) == ~AIWorking(ai)

\* Mutant: the verifier's category is recorded
ResultType_FromVerifier(s, cand, ai) == IF ai.present THEN ai.type ELSE "Unknown"

\* type of the pushed detection result: candidate.pattern.type
ResultType(s, cand, ai) == s.PATTERNS[cand.pattern].type

\* One iteration of: for (const { candidate, aiResult } of batchResults)
Decide(s, slot) ==
    LET cand == s.scan.candidates[slot.cand]
        ai == slot.aiResult
        working == AIWorking(ai)
        tested == UsesStrict(ai)
        strict == RegexTest(s.PATTERNS[cand.pattern].strictRegex, StrictInput(cand),
                            StrictStart(s.PATTERNS[cand.pattern]))
        byAI == working /\ ScoreAccepts(ai)
        byStrict == tested /\ strict.ok
        shouldHighlight == byAI \/ byStrict
        finalScore == IF byAI THEN ai.score
                      ELSE IF byStrict THEN REGEX_FALLBACK ELSE REGEX_ONLY
        s1 == [s EXCEPT !.lastScanUsedAI = IF byAI THEN TRUE ELSE @,
                        !.PATTERNS[cand.pattern].strictLastIndex =
                            IF tested THEN strict.lastIndex ELSE @,
                        !.scan.results = Append(@,
                            [cand |-> slot.cand, aiResult |-> ai, why |-> slot.why,
                             rank |-> slot.rank,
                             shouldHighlight |-> shouldHighlight,
                             finalScore |-> finalScore,
                             entry |-> IF shouldHighlight
                                       THEN Len(s.detectionResults) + 1 ELSE 0])]
        s2 == highlightTextNode(s1, cand.node, s.PATTERNS[cand.pattern].type)
    IN  IF shouldHighlight
        THEN [s2 EXCEPT !.scan.found = TRUE,
                        !.detectionResults = Append(@,
                            [type |-> ResultType(s, cand, ai), text |-> cand.content,
                             aiScore |-> finalScore])]
        ELSE s1

RECURSIVE DecideAll(_, _)
DecideAll(s, k) ==
    IF k > Len(s.scan.slots) THEN s
    ELSE DecideAll(Decide(s, s.scan.slots[k]), k + 1)

\* The resultsReady message
ResultsReady(s) ==
    [count |-> Len(s.detectionResults), results |-> s.detectionResults,
     hasScanned |-> TRUE]

\* Mutant: the abort on an empty PATTERNS list leaves the function before
\* the try block, so finally does not run
Finally_NotOnAbort(s) ==
    LET s1 == [s EXCEPT !.isScanning = FALSE, !.hasScanned = TRUE,
                        !.activeScans = @ - 1, !.aiTimer = NO_TIMER,
                        !.scan.pc = "idle", !.scan.slots = <<>>,
                        !.scan.mutated = FALSE,
                        !.scan.ready = Append(@, ResultsReady(s))]
    IN  IF Len(s.PATTERNS) = 0 /\ s.hasBody
        THEN [s EXCEPT !.activeScans = @ - 1, !.scan.pc = "idle"]
        ELSE IF s.scan.mutated THEN DeliverMutations(s1) ELSE s1

\* finally { isScanning = false; hasScanned = true; ... }, then the observer's
\* microtask for the highlights of the last decision loop
Finally(s) ==
    LET s1 == [s EXCEPT !.isScanning = FALSE, !.hasScanned = TRUE,
                        !.activeScans = @ - 1, !.aiTimer = NO_TIMER,
                        !.scan.pc = "idle", !.scan.slots = <<>>,
                        !.scan.mutated = FALSE,
                        !.scan.ready = Append(@, ResultsReady(s))]
    IN  IF s.scan.mutated THEN DeliverMutations(s1) ELSE s1

\* Math.round((i / candidates.length) * 100)
Progress(i, n) == (200 * i + n) \div (2 * n)

\* Mutant: the message is sent when the batch has been applied
ScanProgress_AfterBatch(s) ==
    [progress |-> Progress(Min({s.scan.i + s.batchSize, Len(s.scan.candidates)}),
                           Len(s.scan.candidates)),
     found |-> Len(s.detectionResults) + s.scan.existing]

\* chrome.runtime.sendMessage({action: "scanProgress", progress, found}) at
\* the top of the loop body
ScanProgress(s) ==
    [progress |-> Progress(s.scan.i, Len(s.scan.candidates)),
     found |-> Len(s.detectionResults) + s.scan.existing]

\* Mutant: the loop steps by the shipped constant whatever the batches hold
NextIndex_Shipped(s) == s.scan.i + BATCH_SIZE

\* i += BATCH_SIZE
NextIndex(s) == s.scan.i + s.batchSize

\* The batch loop from candidate index i on, up to the next await that has to
\* wait for the verifier (or to the end of the scan)
RECURSIVE BatchLoop(_)
BatchLoop(s) ==
    IF s.scan.i >= Len(s.scan.candidates) THEN Finally(s)
    ELSE LET lo == s.scan.i + 1
             hi == Min({s.scan.i + s.batchSize, Len(s.scan.candidates)})
             ready == s.aiState = "ready"
             slots == [k \in 1..(hi - lo + 1) |->
                         [cand |-> lo + k - 1,
                          pending |-> ready,
                          aiResult |-> NullResult,
                          why |-> IF ready THEN "pending" ELSE "notReady",
                          rank |-> 0]]
             s1 == [s EXCEPT !.scan.slots = slots, !.scan.pc = "awaitBatch",
                             !.scan.mutated = FALSE,
                             !.scan.events = Append(@, ScanProgress(s)),
                             !.aiTimer = IF ready THEN AI_TIMEOUT_TICKS ELSE NO_TIMER]
         IN  IF ready THEN s1
             ELSE BatchLoop([DecideAll(s1, 1) EXCEPT !.scan.i = NextIndex(s1)])

\* await Promise.all(batchPromises) resumes: decisions, then the next batch
ApplyBatch(s) == BatchLoop([DecideAll(s, 1) EXCEPT !.scan.i = NextIndex(s)])

\* The entries pushed for the highlights of earlier scans
ExistingHighlights(d) ==
    LET idx == {n \in 1..Len(d) : d[n].hl # "none"}
        F[k \in 0..Len(d)] ==
            IF k = 0 THEN <<>>
            ELSE IF k \in idx
                 THEN Append(F[k - 1], [type |-> d[k].hl, text |-> d[k].content,
                                        aiScore |-> NO_AI_SCORE])
                 ELSE F[k - 1]
    IN  F[Len(d)]

\* Mutant: the scan goes on with an empty PATTERNS list
ScanBody_NoAbort(s) ==
    LET fc == findCandidates(s.dom, s.ignoreLastIndex, s.PATTERNS)
    IN  BatchLoop([s EXCEPT
            !.detectionResults = @ \o ExistingHighlights(s.dom),
            !.ignoreLastIndex = fc.ign,
            !.PATTERNS = fc.pats,
            !.scan.candidates = fc.cands,
            !.scan.existing = Len(ExistingHighlights(s.dom)),
            !.scan.i = 0])

\* scanAndHighlight after await patternsLoadedPromise; findCandidates(
\* document.body) throws when the document has no body, which ends the scan
\* in its catch and finally blocks
ScanBody(s) ==
    IF Len(s.PATTERNS) = 0 THEN Finally(s)
    ELSE IF ~s.hasBody
    THEN Finally([s EXCEPT !.detectionResults = @ \o ExistingHighlights(s.dom),
                           !.scan.existing = Len(ExistingHighlights(s.dom))])
    ELSE LET fc == findCandidates(s.dom, s.ignoreLastIndex, s.PATTERNS)
         IN  BatchLoop([s EXCEPT
                 !.detectionResults = @ \o ExistingHighlights(s.dom),
                 !.ignoreLastIndex = fc.ign,
                 !.PATTERNS = fc.pats,
                 !.scan.candidates = fc.cands,
                 !.scan.existing = Len(ExistingHighlights(s.dom)),
                 !.scan.i = 0])

\* Mutant: the guard is missing
ScanGuard_Missing(s) == FALSE

\* if (isScanning) return;
ScanGuard(s) == s.isScanning

\* Mutant: lastScanUsedAI is not reset when a scan starts
ScanSync_KeepsAIFlag(s) ==
    [s EXCEPT !.isScanning = TRUE, !.detectionResults = <<>>,
              !.activeScans = @ + 1,
              !.scan = [IdleScan EXCEPT !.pc = "awaitPatterns"]]

\* scanAndHighlight past the guard, up to await patternsLoadedPromise: the
\* state in which the caller gets control back
ScanSync(s) ==
    [s EXCEPT !.isScanning = TRUE, !.detectionResults = <<>>,
              !.lastScanUsedAI = FALSE, !.activeScans = @ + 1,
              !.scan = [IdleScan EXCEPT !.pc = "awaitPatterns"]]

\* scanAndHighlight(), with the continuations that need no other event
scanAndHighlight(s) ==
    IF ScanGuard(s) THEN s
    ELSE IF s.patternsLoaded THEN ScanBody(ScanSync(s)) ELSE ScanSync(s)

\* getResults()
getResults(s) ==
    IF Len(s.detectionResults) = 0
    THEN [s EXCEPT !.detectionResults = ExistingHighlights(s.dom)]
    ELSE s

\* The object getResults() returns
GetResultsResponse(s) ==
    LET s1 == getResults(s)
    IN  [count |-> Len(s1.detectionResults),
         results |-> s1.detectionResults,
         isScanning |-> s1.isScanning,
         hasScanned |-> s1.hasScanned,
         mode |-> IF s1.lastScanUsedAI THEN "Hybrid AI" ELSE "Fallback Regex"]

\* Mutant: the scan message ignores the pause flag
OnScanMessage_IgnoresPause(s) == scanAndHighlight(s)

\* request.action === "scan"
OnScanMessage(s) == IF ~s.isPaused THEN scanAndHighlight(s) ELSE s

\* scanAndHighlight() as its caller sees it: the call returns at the guard or
\* at the first await
ScanCall(s) == IF ScanGuard(s) THEN s ELSE ScanSync(s)

\* The togglePause branch when the listener returns
OnTogglePauseReturn(s, paused) ==
    LET s1 == [s EXCEPT !.isPaused = paused]
    IN  IF ~paused THEN ScanCall(s1) ELSE s1

\* Mutant: resuming only clears the flag
OnTogglePause_FlagOnly(s, paused) == [s EXCEPT !.isPaused = paused]

\* request.action === "togglePause", with the continuations that need no
\* other event
OnTogglePause(s, paused) ==
    LET s1 == [s EXCEPT !.isPaused = paused]
    IN  IF ~paused THEN scanAndHighlight(s1) ELSE s1

\* The debounce timer's callback
OnDebounceTimer(s) == scanAndHighlight([s EXCEPT !.scanTimeout = NO_TIMER])

\* patternsLoadedPromise.then(() => { if (!isPaused) { observe; scanAndHighlight() } })
\* observer.observe(document.body, ...) throws when the document has no body
OnStartup(s) ==
    IF ~s.isPaused /\ s.hasBody
    THEN scanAndHighlight([s EXCEPT !.observing = TRUE])
    ELSE s

\* loadPatterns() settles: the startup callback was registered first, an
\* activation waiting at await patternsLoadedPromise resumes after it
OnPatternsLoaded(s, patterns) ==
    LET s1 == OnStartup([s EXCEPT !.PATTERNS = patterns, !.patternsLoaded = TRUE])
    IN  IF s.scan.pc = "awaitPatterns" THEN ScanBody(s1) ELSE s1

\* The callbacks of the current batch that have ended; a slot's rank is its
\* place in the order in which the callbacks of its batch ended
Settled(s) == Cardinality({j \in 1..Len(s.scan.slots) : ~s.scan.slots[j].pending})

\* Mutant: each candidate is decided and recorded when its own verification
\* ends, not after Promise.all
Settle_DecideOnArrival(s, k, ai, why) ==
    LET s1 == [s EXCEPT !.scan.slots[k] =
                   [@ EXCEPT !.pending = FALSE, !.aiResult = ai, !.why = why,
                             !.rank = Settled(s) + 1]]
        s2 == Decide(s1, s1.scan.slots[k])
    IN  IF \E j \in 1..Len(s2.scan.slots) : s2.scan.slots[j].pending
        THEN s2
        ELSE BatchLoop([s2 EXCEPT !.scan.i = NextIndex(s2)])

\* Mutant: no try/catch around the verification, so a rejection rejects
\* Promise.all and the scan ends in its catch and finally blocks
Settle_NoCatch(s, k, ai, why) ==
    LET s1 == [s EXCEPT !.scan.slots[k] =
                   [@ EXCEPT !.pending = FALSE, !.aiResult = ai, !.why = why]]
    IN  IF why = "failed" THEN Finally(s1)
        ELSE IF \E j \in 1..Len(s1.scan.slots) : s1.scan.slots[j].pending
        THEN s1
        ELSE ApplyBatch(s1)

\* Mutant: the scan resumes as soon as one callback of the batch has ended
\* (Promise.race in place of Promise.all)
Settle_First(s, k, ai, why) ==
    ApplyBatch([s EXCEPT !.scan.slots[k] =
                   [@ EXCEPT !.pending = FALSE, !.aiResult = ai, !.why = why]])

\* Mutant: the verification is awaited without a deadline (no Promise.race
\* against timeoutPromise), the timer's expiry settles nothing
Settle_NoDeadline(s, k, ai, why) ==
    LET s1 == [s EXCEPT !.scan.slots[k] =
                   [@ EXCEPT !.pending = FALSE, !.aiResult = ai, !.why = why]]
    IN  IF why = "timeout" THEN s
        ELSE IF \E j \in 1..Len(s1.scan.slots) : s1.scan.slots[j].pending
        THEN s1
        ELSE ApplyBatch(s1)

\* The async callback of candidate slot k ends with aiResult = ai; when it was
\* the last of the batch, Promise.all resolves and the scan resumes
Settle(s, k, ai, why) ==
    LET s1 == [s EXCEPT !.scan.slots[k] =
                   [@ EXCEPT !.pending = FALSE, !.aiResult = ai, !.why = why,
                             !.rank = Settled(s) + 1],
                        !.scan.abandoned =
                            IF why = "timeout" THEN @ \cup {s.scan.slots[k].cand} ELSE @]
    IN  IF \E j \in 1..Len(s1.scan.slots) : s1.scan.slots[j].pending
        THEN s1
        ELSE ApplyBatch(s1)

\* Mutant: the callback takes the verifier's answer whenever it comes, and
\* an accepting answer is recorded
OnLateSettle_Applies(s, c, ai) ==
    LET cand == s.scan.candidates[c]
    IN  IF AIWorking(ai) /\ ScoreAccepts(ai)
        THEN [s EXCEPT !.scan.abandoned = @ \ {c},
                       !.lastScanUsedAI = TRUE,
                       !.detectionResults = Append(@,
                           [type |-> ResultType(s, cand, ai), text |-> cand.content,
                            aiScore |-> ai.score])]
        ELSE [s EXCEPT !.scan.abandoned = @ \ {c}]

\* predictDarkPattern's promise for candidate c settles after timeoutPromise
\* has won the Promise.race: the race is settled, its callback has gone on
\* with aiResult = null, and nothing else waits for the promise
OnLateSettle(s, c, ai) == [s EXCEPT !.scan.abandoned = @ \ {c}]

\* ------------------------------------------------------------------------
\* Offscreen bridge (offscreen.js): background <-> sandboxed iframe
\*   a request is [id, action, text, value, timer]: value is what its promise
\*   resolved with (NoValue while unresolved), timer tells whether its 30 s
\*   timeout is still to fire
\*   a message from the sandbox is [id, result, success, pong], success
\*   being "true", "false" or "undefined"
\* ------------------------------------------------------------------------

NoValue == [kind |-> "unresolved"]

\* resolve(v) on the promise of request n: only the first call has an effect
Resolve(o, n, v) ==
    IF o.requests[n].value = NoValue
    THEN [o EXCEPT !.requests[n].value = v]
    ELSE o

Offscreen ==
    [requestIdCounter |-> requestIdCounter, pendingRequests |-> pendingRequests,
     requests |-> requests, iframeWindow |-> iframeWindow, posted |-> posted,
     responses |-> responses]

ApplyOffscreen(o) ==
    /\ requestIdCounter' = o.requestIdCounter
    /\ pendingRequests' = o.pendingRequests
    /\ requests' = o.requests
    /\ iframeWindow' = o.iframeWindow
    /\ posted' = o.posted
    /\ responses' = o.responses
    /\ UNCHANGED << contentVars, sandboxVars, loaderVars, cosineVars, routerVars,
                    safeWebVars >>

\* Mutant: every request of one kind gets the same id
NewId_PerAction(o, action) ==
    IF action = "predict" THEN 1 ELSE IF action = "init" THEN 2 ELSE 3

\* const id = ++requestIdCounter
NewId(o, action) == o.requestIdCounter + 1

\* sendToSandbox(action, data)
sendToSandbox(o, action, text) ==
    LET id == NewId(o, action)
        n == Len(o.requests) + 1
        o1 == [o EXCEPT !.requestIdCounter = o.requestIdCounter + 1,
                        !.pendingRequests = [k \in DOMAIN @ \cup {id} |->
                                                IF k = id THEN n ELSE @[k]],
                        !.requests = Append(@, [id |-> id, action |-> action,
                                                text |-> text, value |-> NoValue,
                                                timer |-> TRUE])]
    IN  IF ~o.iframeWindow
        THEN Resolve(o1, n, [kind |-> "error", error |-> "Sandbox iframe not found"])
        ELSE [o1 EXCEPT !.posted = @ \cup {[id |-> id, action |-> action,
                                            text |-> text]}]

\* The timeout callback of request n, 30 seconds after the call
OnSandboxTimeout(o, n) ==
    LET id == o.requests[n].id
        o1 == [o EXCEPT !.requests[n].timer = FALSE]
    IN  IF id \in DOMAIN o1.pendingRequests
        THEN Resolve([o1 EXCEPT !.pendingRequests =
                                   [k \in DOMAIN @ \ {id} |-> @[k]]],
                     n, [kind |-> "error", error |-> "Sandbox timeout"])
        ELSE o1

\* A message without a result field
NoResult == [text |-> "", of |-> 0]

\* What the listener resolves with: result, {success}, {pong: true} or an error
ResponseValue(data) ==
    IF data.result # NoResult THEN [kind |-> "result", result |-> data.result]
    ELSE IF data.success # "undefined" THEN [kind |-> "success", success |-> data.success]
    ELSE IF data.pong THEN [kind |-> "pong"]
    ELSE [kind |-> "error", error |-> "Unknown response"]

\* Mutant: the listener resolves the oldest pending request, whatever id the
\* message carries
OnWindowMessage_Oldest(o, data) ==
    IF data.id = 0 \/ DOMAIN o.pendingRequests = {} THEN o
    ELSE LET id == Min(DOMAIN o.pendingRequests)
         IN  [Resolve(o, o.pendingRequests[id], ResponseValue(data))
                 EXCEPT !.pendingRequests = [k \in DOMAIN @ \ {id} |-> @[k]]]

\* window.addEventListener('message', ...)
OnWindowMessage(o, data) ==
    IF data.id = 0 THEN o
    ELSE IF data.id \in DOMAIN o.pendingRequests
    THEN [Resolve(o, o.pendingRequests[data.id], ResponseValue(data))
             EXCEPT !.pendingRequests = [k \in DOMAIN @ \ {data.id} |-> @[k]]]
    ELSE o

\* The sandbox's reply to a posted message (sandbox.js message listener); the
\* result names the message it was computed for
SandboxReply(m, ok) ==
    [id |-> m.id,
     result |-> IF m.action = "predict" THEN [text |-> m.text, of |-> m.id] ELSE NoResult,
     success |-> IF m.action = "init" THEN (IF ok THEN "true" ELSE "false")
                 ELSE "undefined",
     pong |-> m.action = "ping"]

\* Messages of other origin: id 0 stands for a message without id
StrayMessages ==
    {[id |-> i, result |-> NoResult, success |-> "undefined", pong |-> TRUE] :
        i \in 0..(MaxRequests + 1)}

\* What the background asks for: predict with a text, initModel, ping
BridgeCalls ==
    {<<"predict", "a">>, <<"predict", "b">>, <<"init", "">>, <<"ping", "">>}

OffscreenStart ==
    /\ requestIdCounter = 0
    /\ pendingRequests = << >>
    /\ requests = << >>
    /\ iframeWindow \in BOOLEAN
    /\ posted = {}
    /\ responses = {}

\* chrome.runtime.onMessage: predict, initModel or ping from the background
BridgeRequest ==
    /\ Len(requests) < MaxRequests
    /\ \E c \in BridgeCalls : ApplyOffscreen(sendToSandbox(Offscreen, c[1], c[2]))

\* The iframe has loaded
IframeLoads ==
    /\ ~iframeWindow
    /\ ApplyOffscreen([Offscreen EXCEPT !.iframeWindow = TRUE])

\* The sandbox handles a posted message and posts its reply
SandboxAnswers ==
    \E m \in posted : \E ok \in BOOLEAN :
        /\ m.action # "init" => ok
        /\ ApplyOffscreen([Offscreen EXCEPT !.posted = @ \ {m},
                               !.responses = @ \cup {SandboxReply(m, ok)}])

\* A reply of the sandbox reaches the offscreen document, in any order
ResponseArrives ==
    \E data \in responses :
        ApplyOffscreen(OnWindowMessage([Offscreen EXCEPT !.responses = @ \ {data}],
                                       data))

\* Some other message event reaches the listener: no id, or an id that is
\* not pending
StrayArrives ==
    \E data \in StrayMessages :
        /\ data.id \notin DOMAIN pendingRequests
        /\ ApplyOffscreen(OnWindowMessage(Offscreen, data))

\* The 30 s timeout of a request fires
SandboxTimeout ==
    \E n \in 1..Len(requests) :
        /\ requests[n].timer
        /\ ApplyOffscreen(OnSandboxTimeout(Offscreen, n))

\* ------------------------------------------------------------------------
\* Sandbox verifier (sandbox.js)
\*   loadingPromise: [kind |-> "null"], [kind |-> "pending", load |-> k] for
\*   the promise of load attempt k, or [kind |-> "settled", success |-> b]
\*   a load attempt is [phase]: "load" (use.load() in flight), "embed"
\*   (useModel.embed(ALL_EXAMPLES) in flight), "ready" or "failed"
\*   a call is [action, text, pc, on, reply]: pc "awaitInit" (waiting for the
\*   promise of load attempt on), "embedding" (predict computing) or "done"
\* ------------------------------------------------------------------------

NullPromise == [kind |-> "null"]

NoReply == [kind |-> "none"]

Sandbox ==
    [modelReady |-> modelReady, loadingPromise |-> loadingPromise,
     useModel |-> useModel, exampleEmbeddings |-> exampleEmbeddings,
     libraries |-> libraries, loads |-> loads, calls |-> calls]

ApplySandbox(b) ==
    /\ modelReady' = b.modelReady
    /\ loadingPromise' = b.loadingPromise
    /\ useModel' = b.useModel
    /\ exampleEmbeddings' = b.exampleEmbeddings
    /\ libraries' = b.libraries
    /\ loads' = b.loads
    /\ calls' = b.calls
    /\ UNCHANGED << contentVars, offscreenVars, loaderVars, cosineVars, routerVars,
                    safeWebVars >>

\* The async function of initModel up to its first await.  Without the
\* libraries it throws at once: catch and finally run before the promise is
\* assigned to loadingPromise, which therefore keeps the settled promise.
StartLoad(b) ==
    IF ~b.libraries
    THEN [st |-> [b EXCEPT !.modelReady = FALSE,
                           !.loadingPromise = [kind |-> "settled", success |-> FALSE]],
          p |-> [kind |-> "settled", success |-> FALSE]]
    ELSE LET k == Len(b.loads) + 1
         IN  [st |-> [b EXCEPT !.loads = Append(@, [phase |-> "load"]),
                               !.loadingPromise = [kind |-> "pending", load |-> k]],
              p |-> [kind |-> "pending", load |-> k]]

\* Mutant: a load in flight is not shared, every caller starts its own
initModel_NoShare(b) ==
    IF b.modelReady THEN [st |-> b, p |-> [kind |-> "settled", success |-> TRUE]]
    ELSE StartLoad(b)

\* Mutant: initModel does not look at modelReady
initModel_NoReadyCheck(b) ==
    IF b.loadingPromise # NullPromise THEN [st |-> b, p |-> b.loadingPromise]
    ELSE StartLoad(b)

\* initModel(): the state it leaves and the promise it returns
initModel(b) ==
    IF b.modelReady THEN [st |-> b, p |-> [kind |-> "settled", success |-> TRUE]]
    ELSE IF b.loadingPromise # NullPromise THEN [st |-> b, p |-> b.loadingPromise]
    ELSE StartLoad(b)

\* The message listener after await initModel() / await predict(text) has a
\* settled init result: init replies, predict goes on or reports the error
AfterInit(call, success) ==
    IF call.action = "init"
    THEN [call EXCEPT !.pc = "done", !.on = 0,
                      !.reply = [kind |-> "success", success |-> success]]
    ELSE IF success
    THEN [call EXCEPT !.pc = "embedding", !.on = 0]
    ELSE [call EXCEPT !.pc = "done", !.on = 0,
                      !.reply = [kind |-> "error", error |-> "Model failed to load"]]

\* The sandbox's message listener for one message
OnSandboxMessage(b, action, text) ==
    LET call == [action |-> action, text |-> text, pc |-> "awaitInit", on |-> 0,
                 reply |-> NoReply]
    IN  IF action = "ping"
        THEN [b EXCEPT !.calls = Append(@, [call EXCEPT !.pc = "done",
                                                       !.reply = [kind |-> "pong"]])]
        ELSE IF action = "predict" /\ b.modelReady
        THEN [b EXCEPT !.calls = Append(@, [call EXCEPT !.pc = "embedding"])]
        ELSE LET r == initModel(b)
             IN  IF r.p.kind = "pending"
                 THEN [r.st EXCEPT !.calls = Append(@, [call EXCEPT !.on = r.p.load])]
                 ELSE [r.st EXCEPT !.calls = Append(@, AfterInit(call, r.p.success))]

\* The promise of load attempt k settles: finally has set loadingPromise to
\* null, every caller that awaited the promise resumes
SettleLoad(b, k, success) ==
    [b EXCEPT !.loadingPromise = NullPromise,
              !.modelReady = success,
              !.exampleEmbeddings = IF success THEN k ELSE @,
              !.loads[k].phase = IF success THEN "ready" ELSE "failed",
              !.calls = [c \in DOMAIN @ |->
                            IF @[c].pc = "awaitInit" /\ @[c].on = k
                            THEN AfterInit(@[c], success) ELSE @[c]]]

\* useModel = await use.load() resumes; useModel.embed(ALL_EXAMPLES) is called
OnModelLoaded(b, k) ==
    [b EXCEPT !.useModel = k, !.loads[k].phase = "embed"]

\* The Example Bank, reduced to one example for each of two categories
ALL_EXAMPLES == << "Act now!", "Almost sold out!" >>

EXAMPLE_LABELS == << "fakeUrgency", "fakeScarcity" >>

\* The cosine similarities of an input text to the examples, in percent
SimValues == {0, 40, 50, 60, 70, 80}

Similarities == [1..Len(ALL_EXAMPLES) -> SimValues]

\* for (i ...) { if (sim > maxSim) { maxSim = sim; bestIdx = i; } } from
\* maxSim = 0, bestIdx = -1; examples are numbered from 1 here, 0 is no match
RECURSIVE BestMatch(_, _, _)
BestMatch(sims, i, best) ==
    IF i > Len(ALL_EXAMPLES) THEN best
    ELSE BestMatch(sims, i + 1,
                   IF sims[i] > best.maxSim
                   THEN [maxSim |-> sims[i], bestIdx |-> i] ELSE best)

\* type.charAt(0).toUpperCase() + type.slice(1)
Capitalize(type) ==
    IF type = "fakeUrgency" THEN "FakeUrgency"
    ELSE IF type = "fakeScarcity" THEN "FakeScarcity"
    ELSE type

\* predict(text), the try block: the returned object
predict(sims) ==
    LET best == BestMatch(sims, 1, [maxSim |-> 0, bestIdx |-> 0])
        type == IF best.bestIdx >= 1 THEN EXAMPLE_LABELS[best.bestIdx] ELSE "Unknown"
    IN  [score |-> best.maxSim,
         type |-> Capitalize(type),
         confidence |-> IF best.maxSim > HIGH_CONFIDENCE THEN "High" ELSE "Medium",
         modelUsed |-> "USE"]

\* What the messages ask for
SandboxCalls == {<<"init", "">>, <<"predict", "a">>, <<"ping", "">>}

SandboxStart ==
    /\ modelReady = FALSE
    /\ loadingPromise = NullPromise
    /\ useModel = 0
    /\ exampleEmbeddings = 0
    /\ libraries \in BOOLEAN
    /\ loads = << >>
    /\ calls = << >>

\* A message from the offscreen document reaches the sandbox
SandboxMessage ==
    /\ Len(calls) < MaxCalls
    /\ \E c \in SandboxCalls :
           /\ (~modelReady /\ loadingPromise = NullPromise /\ libraries /\ c[1] # "ping")
                  => Len(loads) < MaxLoads
           /\ ApplySandbox(OnSandboxMessage(Sandbox, c[1], c[2]))

\* use.load() resolves
ModelLoads ==
    \E k \in 1..Len(loads) :
        /\ loads[k].phase = "load"
        /\ ApplySandbox(OnModelLoaded(Sandbox, k))

\* use.load() rejects
ModelLoadFails ==
    \E k \in 1..Len(loads) :
        /\ loads[k].phase = "load"
        /\ ApplySandbox(SettleLoad(Sandbox, k, FALSE))

\* useModel.embed(ALL_EXAMPLES) resolves
ExamplesEmbedded ==
    \E k \in 1..Len(loads) :
        /\ loads[k].phase = "embed"
        /\ ApplySandbox(SettleLoad(Sandbox, k, TRUE))

\* useModel.embed(ALL_EXAMPLES) rejects
EmbeddingFails ==
    \E k \in 1..Len(loads) :
        /\ loads[k].phase = "embed"
        /\ ApplySandbox(SettleLoad(Sandbox, k, FALSE))

\* predict's own embedding and comparison end with the result
PredictEnds ==
    \E c \in 1..Len(calls) : \E sims \in Similarities :
        /\ calls[c].pc = "embedding"
        /\ ApplySandbox([Sandbox EXCEPT !.calls[c] =
               [@ EXCEPT !.pc = "done",
                         !.reply = [kind |-> "result", result |-> predict(sims)]]])

\* predict's embedding throws: the catch block returns the error
PredictFails ==
    \E c \in 1..Len(calls) :
        /\ calls[c].pc = "embedding"
        /\ ApplySandbox([Sandbox EXCEPT !.calls[c] =
               [@ EXCEPT !.pc = "done",
                         !.reply = [kind |-> "error", error |-> "e.message"]]])

\* ------------------------------------------------------------------------
\* The numbers of the verifier (sandbox.js, lib/tf-stub.js)
\*   a double is [kind, v]: kind "finite" with v in units of 1/10000, or
\*   "NaN" or "Infinity" (v is then the sign); a vector is a sequence of
\*   integers whose squared norm is a perfect square, so that Math.sqrt is
\*   exact
\* ------------------------------------------------------------------------

NaN == [kind |-> "NaN", v |-> 0]

Finite(v) == [kind |-> "finite", v |-> v]

\* Math.sqrt(n) for a perfect square n
Sqrt(n) == CHOOSE r \in 0..n : r * r = n

\* x / y of two numbers: 0/0 is NaN, x/0 is an infinity
Divide(x, y) ==
    IF y # 0 THEN Finite((x * 10000) \div y)
    ELSE IF x = 0 THEN NaN
    ELSE [kind |-> "Infinity", v |-> IF x > 0 THEN 1 ELSE -1]

\* a > b of two doubles, b finite: false when a is NaN
GreaterThan(a, b) ==
    \/ a.kind = "finite" /\ a.v > b.v
    \/ a.kind = "Infinity" /\ a.v > 0

\* for (i ...) { dot += vecA[i] * vecB[i] } from 0
RECURSIVE DotProduct(_, _, _)
DotProduct(a, b, i) ==
    IF i > Len(a) THEN 0 ELSE a[i] * b[i] + DotProduct(a, b, i + 1)

\* cosineSimilarity(vecA, vecB)
cosineSimilarity(a, b) ==
    LET dot == DotProduct(a, b, 1)
        normA == DotProduct(a, a, 1)
        normB == DotProduct(b, b, 1)
    IN  Divide(dot, Sqrt(normA) * Sqrt(normB))

\* The vectors cosineSimilarity is tried on
Vectors ==
    { <<0, 0>>, <<3, 4>>, <<4, 3>>, <<-4, 3>>, <<5, 12>>, <<12, 5>>, <<5, 0>>,
      <<0, -13>> }

NotComputed == [kind |-> "none", v |-> 0]

\* No computation of the cosineSimilarity under test is going on
CosineIdle ==
    /\ vecA = << >>
    /\ vecB = << >>
    /\ similarity = NotComputed

\* cosineSimilarity(vecA, vecB) returns
CosineReturns ==
    /\ similarity = NotComputed
    /\ similarity' = cosineSimilarity(vecA, vecB)
    /\ UNCHANGED << contentVars, offscreenVars, sandboxVars, loaderVars, vecA, vecB,
                    routerVars, safeWebVars >>

\* ------------------------------------------------------------------------
\* The in-page loader (lib/tf-stub.js)
\*   loader is [useModel, exampleEmbeddings, isModelLoading, modelLoadError,
\*   isReady, timer, calls]: useModel and exampleEmbeddings tell whether the
\*   let is set, timer whether the auto-load timer is still to fire
\*   a call is [fn, text, pc, result]: fn "auto" (the timer's loadUSEModel),
\*   "loadModel" or "predict"; pc "scripts", "load", "embed" (the call runs
\*   the load and awaits that step), "polling" (the wait loop of
\*   loadUSEModel), "embedding" (predictDarkPattern's try block) or "done"
\* ------------------------------------------------------------------------

\* The texts predictDarkPattern is asked about
LoaderTexts == { <<"hurry", "up">>, <<"hello">> }

\* useModel.embed(ALL_EXAMPLES): one vector for each example
ExampleVecs == << <<4, 3>>, <<12, 5>> >>

\* useModel.embed([text])
Embed(text) == IF text = <<"hurry", "up">> THEN <<3, 4>> ELSE <<-4, 3>>

\* text holds the phrase: /phrase/i.test(text)
Holds(text, phrase) ==
    \E k \in 0..(Len(text) - Len(phrase)) :
        \A j \in 1..Len(phrase) : text[k + j] = phrase[j]

HoldsAny(text, phrases) == \E p \in phrases : Holds(text, p)

\* fallbackPredict(text); "#" stands for a number
fallbackPredict(text) ==
    LET urgency == { <<"hurry">>, <<"rush">>, <<"limited", "time">>,
                     <<"act", "now">>, <<"expires">> }
        scarcity == { <<"only", "#", "left">>, <<"low", "stock">>,
                      <<"almost", "gone">>, <<"selling", "fast">> }
        social == { <<"#", "people">>, <<"viewing">>, <<"in", "cart">>,
                    <<"customers">> }
        score == IF HoldsAny(text, urgency) THEN 6000
                 ELSE IF HoldsAny(text, scarcity) THEN 6000
                 ELSE IF HoldsAny(text, social) THEN 5500
                 ELSE 0
        type == IF HoldsAny(text, urgency) THEN "Urgency"
                ELSE IF HoldsAny(text, scarcity) THEN "Scarcity"
                ELSE IF HoldsAny(text, social) THEN "SocialProof"
                ELSE "Unknown"
    IN  [score |-> Finite(score),
         type |-> type,
         confidence |-> IF score > 5000 THEN "Medium" ELSE "Low",
         matchedExample |-> "",
         modelUsed |-> "Fallback"]

\* capitalizeFirst(str)
capitalizeFirst(str) ==
    IF str = "fakeUrgency" THEN "FakeUrgency"
    ELSE IF str = "fakeScarcity" THEN "FakeScarcity"
    ELSE str

\* parseFloat(score.toFixed(3)) for a finite score that is not negative
ToFixed3(score) == Finite(((score.v + 5) \div 10) * 10)

\* for (i ...) { similarity = cosineSimilarity(inputVec[0], exampleVecs[i]);
\* if (similarity > maxSimilarity) { ... } } from maxSimilarity = 0,
\* bestMatchIndex = -1; examples are numbered from 1 here, 0 is no match
RECURSIVE MostSimilar(_, _, _)
MostSimilar(inputVec, i, best) ==
    IF i > Len(ExampleVecs) THEN best
    ELSE LET sim == cosineSimilarity(inputVec, ExampleVecs[i])
         IN  MostSimilar(inputVec, i + 1,
                         IF GreaterThan(sim, best.maxSimilarity)
                         THEN [maxSimilarity |-> sim, bestMatchIndex |-> i]
                         ELSE best)

\* predictDarkPattern(text), the try block when nothing throws
USEPredict(text) ==
    LET best == MostSimilar(Embed(text), 1,
                            [maxSimilarity |-> Finite(0), bestMatchIndex |-> 0])
        score == best.maxSimilarity
        type == IF best.bestMatchIndex >= 1
                THEN EXAMPLE_LABELS[best.bestMatchIndex] ELSE "Unknown"
    IN  [score |-> ToFixed3(score),
         type |-> capitalizeFirst(type),
         confidence |-> IF score.v > HIGH_CONFIDENCE * 100 THEN "High"
                        ELSE IF score.v > MEDIUM_CONFIDENCE * 100 THEN "Medium"
                        ELSE "Low",
         matchedExample |-> IF best.bestMatchIndex >= 1
                            THEN ALL_EXAMPLES[best.bestMatchIndex] ELSE "",
         modelUsed |-> "USE"]

\* isModelReady()
isModelReady(l) == l.useModel /\ l.exampleEmbeddings

\* A call returns
Return(l, c, result) ==
    [l EXCEPT !.calls[c].pc = "done", !.calls[c].result = result]

\* predictDarkPattern from its try block on: useModel.embed([text]) throws
\* at once when useModel is null
PredictTry(l, c) ==
    IF ~l.useModel
    THEN Return(l, c, [kind |-> "result", result |-> fallbackPredict(l.calls[c].text)])
    ELSE [l EXCEPT !.calls[c].pc = "embedding"]

\* The caller of loadUSEModel() goes on after the promise resolved
LoadResolved(l, c) ==
    IF l.calls[c].fn = "predict" THEN PredictTry(l, c)
    ELSE Return([l EXCEPT !.isReady = @ \/ l.calls[c].fn = "auto"], c,
                [kind |-> "resolved", ready |-> isModelReady(l)])

\* The caller of loadUSEModel() goes on after the promise rejected
LoadThrown(l, c) ==
    IF l.calls[c].fn = "predict"
    THEN Return(l, c, [kind |-> "result", result |-> fallbackPredict(l.calls[c].text)])
    ELSE Return(l, c, [kind |-> "thrown"])

\* loadUSEModel() up to its first await
loadUSEModel(l, c) ==
    IF l.useModel THEN LoadResolved(l, c)
    ELSE IF l.isModelLoading THEN [l EXCEPT !.calls[c].pc = "polling"]
    ELSE [l EXCEPT !.isModelLoading = TRUE, !.calls[c].pc = "scripts"]

\* predictDarkPattern(text) up to its first await
predictDarkPattern(l, c) ==
    IF ~l.useModel \/ ~l.exampleEmbeddings THEN loadUSEModel(l, c)
    ELSE PredictTry(l, c)

\* A call of fn arrives
OnLoaderCall(l, fn, text) ==
    LET c == Len(l.calls) + 1
        m == [l EXCEPT !.calls = Append(@, [fn |-> fn, text |-> text,
                                            pc |-> "start", result |-> NoReply])]
    IN  IF fn = "predict" THEN predictDarkPattern(m, c) ELSE loadUSEModel(m, c)

\* The wait loop of loadUSEModel wakes up: while (isModelLoading) goes on
\* waiting, otherwise return useModel
OnPollTimer(l, c) ==
    IF l.isModelLoading THEN l ELSE LoadResolved(l, c)

\* An awaited step of the load resolves
OnLoadStep(l, c) ==
    IF l.calls[c].pc = "scripts" THEN [l EXCEPT !.calls[c].pc = "load"]
    ELSE IF l.calls[c].pc = "load"
    THEN [l EXCEPT !.useModel = TRUE, !.calls[c].pc = "embed"]
    ELSE LoadResolved([l EXCEPT !.exampleEmbeddings = TRUE,
                                !.isModelLoading = FALSE], c)

\* An awaited step of the load rejects: the catch block
OnLoadError(l, c) ==
    LoadThrown([l EXCEPT !.modelLoadError = TRUE, !.isModelLoading = FALSE], c)

\* The try block of predictDarkPattern after useModel.embed([text]) resolved:
\* exampleEmbeddings.array() throws when exampleEmbeddings is null
OnInputEmbedded(l, c) ==
    Return(l, c, [kind |-> "result",
                  result |-> IF l.exampleEmbeddings THEN USEPredict(l.calls[c].text)
                             ELSE fallbackPredict(l.calls[c].text)])

\* useModel.embed([text]) rejects: the catch block
OnInputEmbedError(l, c) ==
    Return(l, c, [kind |-> "result", result |-> fallbackPredict(l.calls[c].text)])

LoaderStart ==
    loader = [useModel |-> FALSE, exampleEmbeddings |-> FALSE,
              isModelLoading |-> FALSE, modelLoadError |-> FALSE,
              isReady |-> FALSE, timer |-> TRUE, calls |-> << >>]

ApplyLoader(l) ==
    /\ loader' = l
    /\ UNCHANGED << contentVars, offscreenVars, sandboxVars, cosineVars, routerVars,
                    safeWebVars >>

\* The page calls SafeWebAI.loadModel() or SafeWebAI.predictDarkPattern(text)
LoaderCall ==
    /\ Len(loader.calls) < MaxLoaderCalls
    /\ \/ ApplyLoader(OnLoaderCall(loader, "loadModel", << >>))
       \/ \E text \in LoaderTexts : ApplyLoader(OnLoaderCall(loader, "predict", text))

\* The auto-load timer fires
LoaderAutoLoad ==
    /\ loader.timer
    /\ Len(loader.calls) < MaxLoaderCalls
    /\ ApplyLoader(OnLoaderCall([loader EXCEPT !.timer = FALSE], "auto", << >>))

\* loadScript, use.load() or useModel.embed(ALL_EXAMPLES) resolves
LoaderStepResolves ==
    \E c \in 1..Len(loader.calls) :
        /\ loader.calls[c].pc \in {"scripts", "load", "embed"}
        /\ ApplyLoader(OnLoadStep(loader, c))

\* loadScript, use.load() or useModel.embed(ALL_EXAMPLES) rejects
LoaderStepRejects ==
    \E c \in 1..Len(loader.calls) :
        /\ loader.calls[c].pc \in {"scripts", "load", "embed"}
        /\ ApplyLoader(OnLoadError(loader, c))

\* The 100 ms timer of a waiting loadUSEModel fires after the load has ended
LoaderPollEnds ==
    \E c \in 1..Len(loader.calls) :
        /\ loader.calls[c].pc = "polling"
        /\ ~loader.isModelLoading
        /\ ApplyLoader(OnPollTimer(loader, c))

\* useModel.embed([text]) of a prediction resolves
LoaderInputEmbedded ==
    \E c \in 1..Len(loader.calls) :
        /\ loader.calls[c].pc = "embedding"
        /\ ApplyLoader(OnInputEmbedded(loader, c))

\* useModel.embed([text]) of a prediction rejects
LoaderInputEmbedFails ==
    \E c \in 1..Len(loader.calls) :
        /\ loader.calls[c].pc = "embedding"
        /\ ApplyLoader(OnInputEmbedError(loader, c))

\* ------------------------------------------------------------------------
\* The background router (background.js)
\*   router is [offscreen, reqs]: offscreen is the offscreen document as the
\*   platform has it, "none", "creating" (chrome.offscreen.createDocument
\*   in flight) or "open"; the platform rejects createDocument while the
\*   extension has a document or is creating one
\*   a request is [action, pc, responses]: pc "setup" (getContexts of
\*   setupOffscreenDocument in flight), "creating" (createDocument in
\*   flight), "contexts" (getContexts of the predict branch in flight),
\*   "offscreen" (chrome.runtime.sendMessage to the offscreen document in
\*   flight), "rejected" (setupOffscreenDocument rejected: its then callback
\*   never runs) or "done"; responses are the sendResponse calls made
\* ------------------------------------------------------------------------

RouterActions == {"predict", "initModel"}

\* What the offscreen document answers to a forwarded predict
OffscreenAnswer == [kind |-> "answer", fallback |-> FALSE]

\* sendResponse({ error: err.message, fallback: true })
ErrorFallback == [kind |-> "error", fallback |-> TRUE]

\* sendResponse({ ready: false, error: err.message })
NotReady == [kind |-> "notReady", fallback |-> FALSE]

\* Is the offscreen document in the answer of chrome.runtime.getContexts?
\* A document whose creation is in flight may or may not be listed.
Listed(r) ==
    IF r.offscreen = "open" THEN {TRUE}
    ELSE IF r.offscreen = "none" THEN {FALSE}
    ELSE BOOLEAN

\* sendResponse(value) for request k
SendResponse(r, k, value) ==
    [r EXCEPT !.reqs[k].pc = "done", !.reqs[k].responses = Append(@, value)]

\* The onMessage listener for a message of a content script: it calls
\* setupOffscreenDocument, which awaits getContexts
OnRouterMessage(r, action) ==
    [r EXCEPT !.reqs = Append(@, [action |-> action, pc |-> "setup",
                                  responses |-> << >>])]

\* The then callback of setupOffscreenDocument(...) up to its first await
AfterSetup(r, k) ==
    IF r.reqs[k].action = "predict"
    THEN [r EXCEPT !.reqs[k].pc = "contexts"]
    ELSE [r EXCEPT !.reqs[k].pc = "offscreen"]

\* setupOffscreenDocument after its getContexts: it returns when a document
\* is listed and calls createDocument otherwise
setupOffscreenDocument(r, k, listed) ==
    IF listed THEN AfterSetup(r, k)
    ELSE IF r.offscreen = "none"
    THEN [r EXCEPT !.offscreen = "creating", !.reqs[k].pc = "creating"]
    ELSE [r EXCEPT !.reqs[k].pc = "rejected"]

\* createDocument resolves
OnDocumentCreated(r, k) == AfterSetup([r EXCEPT !.offscreen = "open"], k)

\* The predict branch after its getContexts
OnPredictContexts(r, k, listed) ==
    IF listed THEN [r EXCEPT !.reqs[k].pc = "offscreen"]
    ELSE SendResponse(r, k, ErrorFallback)

\* chrome.runtime.sendMessage to the offscreen document resolves
OnOffscreenResponse(r, k) == SendResponse(r, k, OffscreenAnswer)

\* chrome.runtime.sendMessage to the offscreen document rejects
OnOffscreenError(r, k) ==
    IF r.reqs[k].action = "predict"
    THEN SendResponse(r, k, ErrorFallback)
    ELSE SendResponse(r, k, NotReady)

RouterIdle(offscreen) == [offscreen |-> offscreen, reqs |-> << >>]

RouterStart == router = RouterIdle("none")

ApplyRouter(r) ==
    /\ router' = r
    /\ UNCHANGED << contentVars, offscreenVars, sandboxVars, loaderVars, cosineVars,
                    safeWebVars >>

\* A content script sends a message to the background
RouterMessage ==
    /\ Len(router.reqs) < MaxRouterRequests
    /\ \E action \in RouterActions : ApplyRouter(OnRouterMessage(router, action))

\* getContexts of setupOffscreenDocument resolves
RouterSetupContexts ==
    \E k \in 1..Len(router.reqs) : \E listed \in Listed(router) :
        /\ router.reqs[k].pc = "setup"
        /\ ApplyRouter(setupOffscreenDocument(router, k, listed))

\* createDocument resolves
RouterDocumentCreated ==
    \E k \in 1..Len(router.reqs) :
        /\ router.reqs[k].pc = "creating"
        /\ ApplyRouter(OnDocumentCreated(router, k))

\* getContexts of the predict branch resolves
RouterPredictContexts ==
    \E k \in 1..Len(router.reqs) : \E listed \in Listed(router) :
        /\ router.reqs[k].pc = "contexts"
        /\ ApplyRouter(OnPredictContexts(router, k, listed))

\* The offscreen document answers
RouterOffscreenResponse ==
    \E k \in 1..Len(router.reqs) :
        /\ router.reqs[k].pc = "offscreen"
        /\ router.offscreen = "open"
        /\ ApplyRouter(OnOffscreenResponse(router, k))

\* No answer comes: the sendMessage promise rejects
RouterOffscreenError ==
    \E k \in 1..Len(router.reqs) :
        /\ router.reqs[k].pc = "offscreen"
        /\ ApplyRouter(OnOffscreenError(router, k))

\* ------------------------------------------------------------------------
\* The Safe Web v2.0 content script (safe-web-extension/content.js)
\*   safeWeb is [detectionResults, dom, aiEnabled, timer, scans]
\*   dom: the text nodes, [content, attached]; a node's place in the
\*   sequence is its identity, the text nodes a highlight leaves behind are
\*   added at the end
\*   detectionResults: the entries pushed, each with the candidate (node,
\*   pattern) it was pushed for
\*   timer: the startup timer is still to fire
\*   scans: the activations of scanAndHighlight, [by, candidates, i, pc,
\*   response]: by "timer" or "message"; pc "predict" (awaiting
\*   predictDarkPattern for candidate i), "notify" (awaiting the resultsReady
\*   sendMessage) or "done"; response is what sendResponse was given
\* ------------------------------------------------------------------------

\* const PATTERNS of the v2.0 script, reduced to two categories
SafeWebPatterns ==
    << [type |-> "Urgency", regex |-> {"hurry"}],
       [type |-> "Scarcity", regex |-> {"fast"}] >>

\* const AI_THRESHOLD = 0.6, in percent
AI_THRESHOLD == 60

\* aiResult?.score || 0.5, in percent
REGEX_ONLY_SCORE == 50

\* What await predictDarkPattern(candidate.content) leaves in aiResult: null
\* when the call threw, or the prediction
SafeWebAnswers ==
    { [present |-> FALSE, type |-> "", score |-> 0, confidence |-> ""],
      [present |-> TRUE, type |-> "FakeUrgency", score |-> 96, confidence |-> "High"],
      [present |-> TRUE, type |-> "Unknown", score |-> 40, confidence |-> "Low"] }

NoAnswer == [present |-> FALSE, type |-> "", score |-> 0, confidence |-> ""]

\* findCandidates(document.body): for each text node outside a highlight,
\* one candidate per pattern whose regex (lastIndex reset) matches
RECURSIVE SafeWebCandidates(_, _, _)
SafeWebCandidates(doc, n, p) ==
    IF n > Len(doc) THEN << >>
    ELSE IF p > Len(SafeWebPatterns) THEN SafeWebCandidates(doc, n + 1, 1)
    ELSE IF doc[n].attached /\ RegexTest(SafeWebPatterns[p].regex, doc[n].content, 0).ok
    THEN << [node |-> n, content |-> doc[n].content, pattern |-> p] >>
             \o SafeWebCandidates(doc, n, p + 1)
    ELSE SafeWebCandidates(doc, n, p + 1)

\* The parts of content.split(pattern.regex) that become text nodes again
RECURSIVE Unmatched(_, _)
Unmatched(content, kws) ==
    IF content = << >> THEN << >>
    ELSE IF Head(content) \in kws THEN Unmatched(Tail(content), kws)
    ELSE << Head(content) >> \o Unmatched(Tail(content), kws)

\* highlightTextNode(node, pattern, aiResult) of the v2.0 script: nothing
\* when the node has no parent; otherwise the node is replaced by spans for
\* the matches and text nodes for the rest
SafeWebHighlight(w, cand) ==
    LET rest == Unmatched(cand.content, SafeWebPatterns[cand.pattern].regex)
    IN  IF ~w.dom[cand.node].attached THEN w
        ELSE IF rest = << >>
        THEN [w EXCEPT !.dom[cand.node].attached = FALSE]
        ELSE [w EXCEPT !.dom[cand.node].attached = FALSE,
                       !.dom = Append(@, [content |-> rest, attached |-> TRUE])]

\* getResults()
SafeWebGetResults(w) ==
    [count |-> Len(w.detectionResults), results |-> w.detectionResults,
     aiEnabled |-> w.aiEnabled]

\* scanAndHighlight() has returned: the then callback of the scan message
\* answers with getResults()
SafeWebFinish(w, a) ==
    [w EXCEPT !.scans[a].pc = "done",
              !.scans[a].response =
                  IF w.scans[a].by = "message"
                  THEN << SafeWebGetResults(w) >> ELSE << >>]

\* The loop body after aiResult is known: shouldHighlight, highlight, push
SafeWebDecide(w, a, ai) ==
    LET cand == w.scans[a].candidates[w.scans[a].i]
        shouldHighlight == ~w.aiEnabled \/ ~ai.present \/ ai.score >= AI_THRESHOLD
    IN  IF shouldHighlight
        THEN [SafeWebHighlight(w, cand) EXCEPT
                 !.detectionResults = Append(@,
                     [type |-> IF ai.present THEN ai.type
                               ELSE SafeWebPatterns[cand.pattern].type,
                      score |-> IF ai.present THEN ai.score ELSE REGEX_ONLY_SCORE,
                      confidence |-> IF ai.present THEN ai.confidence ELSE "Regex Only",
                      text |-> cand.content,
                      node |-> cand.node, pattern |-> cand.pattern])]
        ELSE w

\* for (const candidate of candidates) from candidate i on, up to the next
\* await; after the loop the resultsReady message when there are results
RECURSIVE SafeWebLoop(_, _)
SafeWebLoop(w, a) ==
    IF w.scans[a].i > Len(w.scans[a].candidates)
    THEN IF Len(w.detectionResults) > 0
         THEN [w EXCEPT !.scans[a].pc = "notify"]
         ELSE SafeWebFinish(w, a)
    ELSE IF w.aiEnabled
    THEN [w EXCEPT !.scans[a].pc = "predict"]
    ELSE SafeWebLoop([SafeWebDecide(w, a, NoAnswer) EXCEPT !.scans[a].i = @ + 1], a)

\* scanAndHighlight() of the v2.0 script, up to its first await
SafeWebScan(w, by) ==
    LET a == Len(w.scans) + 1
    IN  SafeWebLoop([w EXCEPT
            !.detectionResults = << >>,
            !.scans = Append(@, [by |-> by,
                                 candidates |-> SafeWebCandidates(w.dom, 1, 1),
                                 i |-> 1, pc |-> "start", response |-> << >>])], a)

\* await predictDarkPattern(...) ends for activation a
OnSafeWebPrediction(w, a, ai) ==
    SafeWebLoop([SafeWebDecide(w, a, ai) EXCEPT !.scans[a].i = @ + 1], a)

SafeWebPage(doc, enabled) ==
    [detectionResults |-> << >>, dom |-> doc, aiEnabled |-> enabled,
     timer |-> TRUE, scans |-> << >>]

SafeWebStart == safeWeb = SafeWebPage(<< >>, TRUE)

ApplySafeWeb(w) ==
    /\ safeWeb' = w
    /\ UNCHANGED << contentVars, offscreenVars, sandboxVars, loaderVars, cosineVars,
                    routerVars >>

\* setTimeout(scanAndHighlight, 2000) fires
SafeWebTimer ==
    /\ safeWeb.timer
    /\ ApplySafeWeb(SafeWebScan([safeWeb EXCEPT !.timer = FALSE], "timer"))

\* request.action === "scan"
SafeWebScanMessage ==
    /\ Len(safeWeb.scans) + (IF safeWeb.timer THEN 1 ELSE 0) < MaxSafeWebScans
    /\ ApplySafeWeb(SafeWebScan(safeWeb, "message"))

\* predictDarkPattern settles for an activation
SafeWebPrediction ==
    \E a \in 1..Len(safeWeb.scans) : \E ai \in SafeWebAnswers :
        /\ safeWeb.scans[a].pc = "predict"
        /\ ApplySafeWeb(OnSafeWebPrediction(safeWeb, a, ai))

\* The resultsReady sendMessage settles (resolved or rejected)
SafeWebNotified ==
    \E a \in 1..Len(safeWeb.scans) :
        /\ safeWeb.scans[a].pc = "notify"
        /\ ApplySafeWeb(SafeWebFinish(safeWeb, a))

\* ------------------------------------------------------------------------
\* Actions
\* ------------------------------------------------------------------------

\* The state after the script has been evaluated, for a document and a
\* verifier state
PageStart(docs, aiStates) ==
    /\ isScanning = FALSE
    /\ hasScanned = FALSE
    /\ isPaused = FALSE
    /\ lastScanUsedAI = FALSE
    /\ detectionResults = <<>>
    /\ PATTERNS = <<>>
    /\ patternsLoaded = FALSE
    /\ ignoreLastIndex = [k \in 1..Len(IGNORED_PATTERNS) |-> 0]
    /\ dom \in docs
    /\ scanTimeout = NO_TIMER
    /\ observing = FALSE
    /\ scan = IdleScan
    /\ activeScans = 0
    /\ aiTimer = NO_TIMER
    /\ sinceMutation = DEBOUNCE_TICKS
    /\ aiState \in aiStates
    /\ storedPaused \in BOOLEAN
    /\ storagePending = TRUE

\* The content script as evaluated in an HTML document
ContentStart(docs, aiStates) ==
    /\ PageStart(docs, aiStates)
    /\ hasBody = TRUE

\* A page load: the content script as evaluated, the verifier's documents idle
Start(docs, aiStates) ==
    /\ ContentStart(docs, aiStates)
    /\ OffscreenStart /\ iframeWindow
    /\ SandboxStart /\ libraries
    /\ LoaderStart
    /\ RouterStart /\ SafeWebStart
    /\ CosineIdle

\* The build as shipped: batches of BATCH_SIZE, the shipped patterns.txt
Shipped == batchSize = BATCH_SIZE /\ patternsTxt = PatternsTxt

Init == Start(InitialDocs, {"notReady"}) /\ Shipped

\* chrome.storage.local.get(['isPaused'], ...) calls back
StorageRead ==
    /\ storagePending
    /\ storagePending' = FALSE
    /\ Apply([St EXCEPT !.isPaused = storedPaused])
    /\ UNCHANGED storedPaused

\* loadPatterns() ends: with the parsed file, or with PATTERNS left empty
PatternsLoaded ==
    /\ ~patternsLoaded
    /\ \E patterns \in {parsePatterns(patternsTxt), <<>>} :
           Apply(OnPatternsLoaded(St, patterns))
    /\ UNCHANGED << storedPaused, storagePending >>

ScanMessage ==
    /\ Apply(OnScanMessage(St))
    /\ UNCHANGED << storedPaused, storagePending >>

GetResultsMessage ==
    /\ Apply(getResults(St))
    /\ UNCHANGED << storedPaused, storagePending >>

TogglePauseMessage ==
    /\ \E paused \in BOOLEAN : Apply(OnTogglePause(St, paused))
    /\ UNCHANGED << storedPaused, storagePending >>

\* The page adds a text node
MutationAdd ==
    /\ Len(dom) < MaxNodes
    /\ \E nd \in MutationNodes :
           Apply(DeliverMutations([St EXCEPT !.dom = Append(@, nd),
                                             !.sinceMutation = 0]))
    /\ UNCHANGED << storedPaused, storagePending >>

\* The page removes a text node
MutationRemove ==
    /\ \E n \in 1..Len(dom) :
           /\ dom[n].attached
           /\ Apply(DeliverMutations([St EXCEPT !.dom[n].attached = FALSE,
                                                !.sinceMutation = 0]))
    /\ UNCHANGED << storedPaused, storagePending >>

\* The page changes its child list without adding or removing scannable text
MutationOther ==
    /\ Apply(DeliverMutations([St EXCEPT !.sinceMutation = 0]))
    /\ UNCHANGED << storedPaused, storagePending >>

DebounceFire ==
    /\ scanTimeout = 0
    /\ Apply(OnDebounceTimer(St))
    /\ UNCHANGED << storedPaused, storagePending >>

\* window.SafeWebAI.isReady = true
AIReady ==
    /\ aiState = "notReady"
    /\ Apply([St EXCEPT !.aiState = "ready"])
    /\ UNCHANGED << storedPaused, storagePending >>

\* predictDarkPattern resolves for slot k before the timeout
VerifierAnswer ==
    /\ scan.pc = "awaitBatch"
    /\ \E k \in 1..Len(scan.slots) : \E ans \in VerifierAnswers :
           /\ scan.slots[k].pending
           /\ Apply(Settle(St, k, ans, "answer"))
    /\ UNCHANGED << storedPaused, storagePending >>

\* predictDarkPattern rejects, or resolves with no value ("AI Timeout" is
\* thrown and caught): aiResult stays null
VerifierFails ==
    /\ scan.pc = "awaitBatch"
    /\ \E k \in 1..Len(scan.slots) :
           /\ scan.slots[k].pending
           /\ Apply(Settle(St, k, NullResult, "failed"))
    /\ UNCHANGED << storedPaused, storagePending >>

\* timeoutPromise(5000) wins the race for slot k
AITimeout ==
    /\ scan.pc = "awaitBatch"
    /\ aiTimer = 0
    /\ \E k \in 1..Len(scan.slots) :
           /\ scan.slots[k].pending
           /\ Apply(Settle(St, k, NullResult, "timeout"))
    /\ UNCHANGED << storedPaused, storagePending >>

\* predictDarkPattern resolves or rejects for a candidate whose deadline has
\* expired
LateAnswer ==
    /\ \E c \in scan.abandoned : \E ans \in VerifierAnswers \cup {NullResult} :
           Apply(OnLateSettle(St, c, ans))
    /\ UNCHANGED << storedPaused, storagePending >>

Dec(t) == IF t > 0 THEN t - 1 ELSE t

\* 250 ms pass
Tick ==
    /\ scanTimeout' = Dec(scanTimeout)
    /\ aiTimer' = Dec(aiTimer)
    /\ sinceMutation' = IF sinceMutation < DEBOUNCE_TICKS
                        THEN sinceMutation + 1 ELSE sinceMutation
    /\ UNCHANGED << isScanning, hasScanned, isPaused, lastScanUsedAI,
                    detectionResults, PATTERNS, patternsLoaded, ignoreLastIndex,
                    dom, observing, scan, activeScans, aiState,
                    storedPaused, storagePending >>
    /\ UNCHANGED outside

Next ==
    \/ StorageRead
    \/ PatternsLoaded
    \/ ScanMessage
    \/ GetResultsMessage
    \/ TogglePauseMessage
    \/ MutationAdd
    \/ MutationRemove
    \/ MutationOther
    \/ DebounceFire
    \/ AIReady
    \/ VerifierAnswer
    \/ VerifierFails
    \/ AITimeout
    \/ Tick

Spec == Init /\ [][Next]_vars

\* The session when the stored flag is false and no togglePause arrives
InitUnpaused == Init /\ storedPaused = FALSE

NextUnpaused ==
    \/ StorageRead
    \/ PatternsLoaded
    \/ ScanMessage
    \/ GetResultsMessage
    \/ MutationAdd
    \/ MutationRemove
    \/ MutationOther
    \/ DebounceFire
    \/ AIReady
    \/ VerifierAnswer
    \/ VerifierFails
    \/ AITimeout
    \/ Tick

SpecUnpaused == InitUnpaused /\ [][NextUnpaused]_vars

\* The dispatch scenarios: one page load with a richer document, scans asked
\* for by the popup, no pause and no page mutation
InitDispatch ==
    /\ Start(DispatchDocs, {"absent", "notReady", "ready"})
    /\ storedPaused = FALSE
    /\ Shipped

NextDispatch ==
    \/ PatternsLoaded
    \/ ScanMessage
    \/ AIReady
    \/ VerifierAnswer
    \/ VerifierFails
    \/ AITimeout
    \/ Tick

SpecDispatch == InitDispatch /\ [][NextDispatch]_vars

\* The dispatch scenarios with the event loop's guarantees: time passes, a
\* timer that has expired fires, the config load settles.  The verifier is
\* under no obligation to answer.
LiveDocs == { <<NBoth, NBoth>>, <<NLong, NHidden>> }

InitDispatchLive ==
    /\ Start(LiveDocs, {"notReady", "ready"})
    /\ storedPaused = FALSE
    /\ Shipped

\* ENABLED <<AITimeout>>_vars, written out: the timers of the batch have
\* expired and the callback of a pending slot would go on
AITimeoutEnabled ==
    /\ scan.pc = "awaitBatch"
    /\ aiTimer = 0
    /\ \E k \in 1..Len(scan.slots) :
           /\ scan.slots[k].pending
           /\ Settle(St, k, NullResult, "timeout") # St

\* WF_vars(AITimeout)
AITimeoutFires == []<>(~AITimeoutEnabled) \/ []<><<AITimeout>>_vars

SpecDispatchLive ==
    /\ InitDispatchLive /\ [][NextDispatch]_vars
    /\ WF_vars(Tick)
    /\ WF_vars(PatternsLoaded)
    /\ AITimeoutFires

\* The offscreen bridge on its own: the content script stays as loaded
InitBridge ==
    /\ ContentStart({<<>>}, {"absent"}) /\ storedPaused = FALSE /\ Shipped
    /\ OffscreenStart
    /\ SandboxStart /\ libraries
    /\ LoaderStart
    /\ RouterStart /\ SafeWebStart
    /\ CosineIdle

NextBridge ==
    \/ BridgeRequest
    \/ IframeLoads
    \/ SandboxAnswers
    \/ ResponseArrives
    \/ StrayArrives
    \/ SandboxTimeout

SpecBridge == InitBridge /\ [][NextBridge]_vars

\* The late-response scenarios: a page load of the detector whose verifier
\* may answer after the deadline, or (on the empty page) the offscreen bridge
\* on its own
LateDocs == { <<>>, <<NBoth, NBoth>> }

InitLate ==
    /\ ContentStart(LateDocs, {"ready"}) /\ storedPaused = FALSE /\ Shipped
    /\ OffscreenStart
    /\ SandboxStart /\ libraries
    /\ LoaderStart
    /\ RouterStart /\ SafeWebStart
    /\ CosineIdle

NextLate ==
    \/ dom # << >> /\ (NextDispatch \/ LateAnswer)
    \/ dom = << >> /\ NextBridge

SpecLate == InitLate /\ [][NextLate]_vars

\* The sandbox verifier on its own
InitSandbox ==
    /\ ContentStart({<<>>}, {"absent"}) /\ storedPaused = FALSE /\ Shipped
    /\ OffscreenStart /\ iframeWindow
    /\ SandboxStart
    /\ LoaderStart
    /\ RouterStart /\ SafeWebStart
    /\ CosineIdle

NextSandbox ==
    \/ SandboxMessage
    \/ ModelLoads
    \/ ModelLoadFails
    \/ ExamplesEmbedded
    \/ EmbeddingFails
    \/ PredictEnds
    \/ PredictFails

SpecSandbox == InitSandbox /\ [][NextSandbox]_vars

\* The config scenarios: a page load with the shipped patterns.txt or with one
\* that holds an empty section
ConfigDocs == { <<NHurry>>, <<NPlain>> }

InitConfig ==
    /\ Start(ConfigDocs, {"notReady", "ready"})
    /\ storedPaused = FALSE
    /\ batchSize = BATCH_SIZE
    /\ patternsTxt \in {PatternsTxt, PatternsTxtEmptySection}

SpecConfig == InitConfig /\ [][NextDispatch]_vars

\* The batching scenarios: the same page scanned by a build with batches of
\* one and by the shipped build; the verifier answers or fails, no deadline
\* expires
BatchDocs == { <<NBoth, NBoth>>, <<NBoth, NHurry>> }

InitBatch ==
    /\ Start(BatchDocs, {"notReady", "ready"})
    /\ storedPaused = FALSE
    /\ batchSize \in {1, BATCH_SIZE}
    /\ patternsTxt = PatternsTxt

NextBatch ==
    \/ PatternsLoaded
    \/ ScanMessage
    \/ AIReady
    \/ VerifierAnswer
    \/ VerifierFails

SpecBatch == InitBatch /\ [][NextBatch]_vars

\* Everything but the in-page loader and the cosineSimilarity under test, as
\* loaded and idle
RestIdle ==
    /\ ContentStart({<<>>}, {"absent"}) /\ storedPaused = FALSE /\ Shipped
    /\ OffscreenStart /\ iframeWindow
    /\ SandboxStart /\ libraries

\* The in-page loader on its own
InitLoader == RestIdle /\ LoaderStart /\ CosineIdle /\ RouterStart /\ SafeWebStart

NextLoader ==
    \/ LoaderCall
    \/ LoaderAutoLoad
    \/ LoaderStepResolves
    \/ LoaderStepRejects
    \/ LoaderPollEnds
    \/ LoaderInputEmbedded
    \/ LoaderInputEmbedFails

SpecLoader == InitLoader /\ [][NextLoader]_vars

\* cosineSimilarity applied to each pair of vectors
InitCosine ==
    /\ RestIdle /\ LoaderStart /\ RouterStart /\ SafeWebStart
    /\ vecA \in Vectors
    /\ vecB \in Vectors
    /\ similarity = NotComputed

SpecCosine == InitCosine /\ [][CosineReturns]_vars

\* ------------------------------------------------------------------------
\* Properties
\* ------------------------------------------------------------------------

\* The strict matcher of the candidate's category, applied to its matched text
StrictMatches(cand) ==
    RegexTest(PATTERNS[cand.pattern].strictRegex, cand.content, 0).ok

\* The decision tier of a logged decision
Tier(r) ==
    IF r.finalScore >= 0 THEN "AI"
    ELSE IF r.finalScore = REGEX_FALLBACK THEN "StrictFallback"
    ELSE "discarded"

\* The verification returned a result without error and without fallback flag
VerifiedOk(ai) == ai.present /\ ~ai.fallback /\ ~ai.error

Decisions == {scan.results[k] : k \in 1..Len(scan.results)}

CandOf(r) == scan.candidates[r.cand]

\* An accepted decision and the detection result pushed for it agree
Recorded(r) ==
    /\ r.shouldHighlight <=> Tier(r) # "discarded"
    /\ r.shouldHighlight =>
         /\ r.entry \in 1..Len(detectionResults)
         /\ detectionResults[r.entry].aiScore = r.finalScore
         /\ detectionResults[r.entry].text = CandOf(r).content

\* Every candidate of a batch that has been applied has a decision
AllDecided ==
    /\ scan.pc = "idle" => Len(scan.results) = Len(scan.candidates)
    /\ scan.pc = "awaitBatch" => Len(scan.results) = scan.i
    /\ \A k \in 1..Len(scan.results) : scan.results[k].cand = k

\* C1: at most one scan is active at any time; isScanning is set only by an
\* activation that observed it false; an invocation of scanAndHighlight made
\* while isScanning is true changes none of detectionResults, lastScanUsedAI,
\* hasScanned, isScanning.
C1_SingleActiveScan ==
    /\ activeScans \in {0, 1}
    /\ isScanning <=> activeScans = 1
    /\ isScanning <=> scan.pc # "idle"
    /\ isScanning =>
         LET r == scanAndHighlight(St)
         IN  /\ r.detectionResults = detectionResults
             /\ r.lastScanUsedAI = lastScanUsedAI
             /\ r.hasScanned = hasScanned
             /\ r.isScanning = isScanning
             /\ r.activeScans = activeScans
             /\ r.scan = scan

\* A scan is waiting for the verifier while the debounce timer is due, the
\* session is not paused: timer, scan message and resume would all invoke
\* scanAndHighlight now.
C1_Witness ==
    /\ isScanning /\ scan.pc = "awaitBatch"
    /\ scanTimeout = 0 /\ ~isPaused /\ hasScanned

\* C2 (as claimed): once togglePause has set isPaused to true, the debounce
\* timer's callback starts no scan while the flag stays true, also when the
\* timer was armed by a mutation before the pause.  (The stored flag being
\* false, only togglePause can have set isPaused.)
C2_NoAutoScanWhilePaused ==
    [][(isPaused /\ ~storedPaused /\ DebounceFire) =>
          UNCHANGED << isScanning, hasScanned, detectionResults,
                       lastScanUsedAI, activeScans, scan >>]_vars

\* C3: a scan message received while isPaused is true starts no scan:
\* isScanning, detectionResults, hasScanned and lastScanUsedAI are unchanged.
C3_PausedScanRejected ==
    isPaused =>
        LET r == OnScanMessage(St)
        IN  /\ r.isScanning = isScanning
            /\ r.detectionResults = detectionResults
            /\ r.hasScanned = hasScanned
            /\ r.lastScanUsedAI = lastScanUsedAI
            /\ r.activeScans = activeScans
            /\ r.scan = scan

\* Paused, idle, with patterns loaded and a text node a scan would flag
C3_Witness ==
    /\ isPaused /\ ~isScanning /\ patternsLoaded /\ Len(PATTERNS) > 0
    /\ \E n \in 1..Len(dom) : dom[n].attached /\ dom[n].visible

\* C4 (as claimed): every candidate not accepted by tier AI, whatever the
\* reason, is accepted with tier StrictFallback exactly when the strict
\* matcher matches its matched text.
C4_EveryNonAIUsesStrict ==
    \A r \in Decisions :
        Tier(r) # "AI" => (Tier(r) = "StrictFallback" <=> StrictMatches(CandOf(r)))

\* C4 (amended): a candidate whose verification gave no usable result (no
\* result, or one flagged fallback or error) is accepted with tier
\* StrictFallback exactly when the strict matcher matches its matched text; a
\* candidate whose verification succeeded with a score of at most 0.6 is
\* discarded without the strict test.
C4_StrictOnlyWithoutVerdict ==
    \A r \in Decisions :
        /\ Recorded(r)
        /\ ~VerifiedOk(r.aiResult) =>
             /\ Tier(r) # "AI"
             /\ Tier(r) = "StrictFallback" <=> StrictMatches(CandOf(r))
        /\ (VerifiedOk(r.aiResult) /\ r.aiResult.score <= ACCEPT_THRESHOLD) =>
             Tier(r) = "discarded"

\* A finished scan that accepted one candidate by the strict matcher after a
\* flagged result, and discarded another whose verification succeeded with
\* score 0.6 although the strict matcher matches its text
C4_Witness ==
    /\ scan.pc = "idle" /\ hasScanned
    /\ \E r \in Decisions :
          /\ r.aiResult.present /\ r.aiResult.fallback
          /\ Tier(r) = "StrictFallback"
    /\ \E r \in Decisions :
          /\ VerifiedOk(r.aiResult) /\ r.aiResult.score = ACCEPT_THRESHOLD
          /\ Tier(r) = "discarded" /\ StrictMatches(CandOf(r))

\* C5: a candidate whose verification is ended by the 5-second timeout gets
\* no verifier result and is decided by the strict matcher on its matched
\* text: accepted as a fallback result exactly when the matcher matches; no
\* candidate of an applied batch is left without a decision.
C5_TimeoutDecidedByStrict ==
    /\ AllDecided
    /\ \A r \in Decisions :
         r.why = "timeout" =>
            /\ ~r.aiResult.present
            /\ Recorded(r)
            /\ Tier(r) # "AI"
            /\ Tier(r) = "StrictFallback" <=> StrictMatches(CandOf(r))

\* A finished scan in which a timed-out candidate was accepted as a fallback
C5_Witness ==
    /\ scan.pc = "idle" /\ hasScanned
    /\ \E r \in Decisions :
          /\ r.why = "timeout" /\ r.shouldHighlight
          /\ detectionResults[r.entry].aiScore = REGEX_FALLBACK

\* C6: a candidate is accepted with tier AI, the verifier's score recorded
\* as its score, exactly when its verification returned a result with no
\* error, no fallback flag and a score strictly above 0.6.
C6_AITierExactlyAboveThreshold ==
    \A r \in Decisions :
        /\ Tier(r) = "AI" <=>
             (r.aiResult.present /\ ~r.aiResult.error /\ ~r.aiResult.fallback
              /\ r.aiResult.score > ACCEPT_THRESHOLD)
        /\ Tier(r) = "AI" =>
             /\ r.shouldHighlight
             /\ r.entry \in 1..Len(detectionResults)
             /\ detectionResults[r.entry].aiScore = r.aiResult.score

\* One scan with a verified score of exactly 0.6 not accepted by tier AI and
\* a verified score of 0.85 accepted by tier AI
C6_Witness ==
    /\ \E r \in Decisions :
          VerifiedOk(r.aiResult) /\ r.aiResult.score = ACCEPT_THRESHOLD
          /\ Tier(r) # "AI"
    /\ \E r \in Decisions :
          VerifiedOk(r.aiResult) /\ r.aiResult.score = 85 /\ Tier(r) = "AI"
          /\ detectionResults[r.entry].aiScore = 85

\* C7 (as claimed): the result recorded for a candidate accepted by tier AI
\* carries the category returned by the verifier.
C7_RecordsVerifierCategory ==
    \A r \in Decisions :
        Tier(r) = "AI" => detectionResults[r.entry].type = r.aiResult.type

\* C7 (amended): the result recorded for a candidate accepted by tier AI
\* carries the verifier's score and the category of the candidate's own
\* pattern (the one whose broad matcher fired), not the verifier's category.
C7_RecordsPatternCategory ==
    \A r \in Decisions :
        Tier(r) = "AI" =>
            /\ r.entry \in 1..Len(detectionResults)
            /\ detectionResults[r.entry].aiScore = r.aiResult.score
            /\ detectionResults[r.entry].type = PATTERNS[CandOf(r).pattern].type
            /\ detectionResults[r.entry].text = CandOf(r).content

\* The text "hurry ..." matched by Urgency, answered 0.85 / fakeUrgency, is
\* recorded with score 85 and type Urgency
C7_Witness ==
    \E r \in Decisions :
        /\ r.aiResult = Answer(85, "fakeUrgency", FALSE, FALSE)
        /\ PATTERNS[CandOf(r).pattern].type = "Urgency"
        /\ detectionResults[r.entry] =
             [type |-> "Urgency", text |-> CandOf(r).content, aiScore |-> 85]

\* The verifier gave no usable result: absent or not ready, rejected, or a
\* result flagged error or fallback
VerifierFailed(r) ==
    \/ r.why \in {"notReady", "failed"}
    \/ r.aiResult.present /\ (r.aiResult.error \/ r.aiResult.fallback)

\* C8: a candidate whose verifier is absent, not ready, rejects or returns
\* an error or fallback-flagged result is decided by the strict matcher on
\* its matched text, and the scan goes on: every candidate of every applied
\* batch has a decision and a finished scan has decided all its candidates.
C8_VerifierFailureFallsBack ==
    /\ AllDecided
    /\ \A r \in Decisions :
         VerifierFailed(r) =>
            /\ Recorded(r)
            /\ Tier(r) # "AI"
            /\ Tier(r) = "StrictFallback" <=> StrictMatches(CandOf(r))

\* A finished scan of four candidates whose first verification was rejected
\* and whose last candidate, of the second batch, was still decided
C8_Witness ==
    /\ scan.pc = "idle" /\ hasScanned /\ ~isScanning
    /\ Len(scan.candidates) > BATCH_SIZE
    /\ Len(scan.results) = Len(scan.candidates)
    /\ scan.results[1].why = "failed"
    /\ scan.results[1].shouldHighlight

\* Does the text hold a phrase of the ignore list?
ContainsIgnored(text) ==
    \E k \in 1..Len(IGNORED_PATTERNS) : \E p \in 1..Len(text) :
        text[p] \in IGNORED_PATTERNS[k]

\* C9 (as claimed): in every scan a text span that holds an ignore-list
\* phrase yields no candidate, whatever was examined before it.
C9_IgnoredSpanYieldsNoCandidate ==
    \A k \in 1..Len(scan.candidates) :
        ~ContainsIgnored(scan.candidates[k].content)

\* C10 (as claimed): a scan started by the debounce timer never starts
\* sooner than 750 ms after the most recent mutation of the document, also
\* when that mutation arrived during an in-flight scan.
C10_ScanOnlyAfterQuietPeriod ==
    [][(DebounceFire /\ ~isScanning) => sinceMutation >= DEBOUNCE_TICKS]_vars

\* The last scan has run to its end with a loaded Category Bank
ScanFinished == scan.pc = "idle" /\ hasScanned /\ patternsLoaded /\ Len(PATTERNS) > 0

\* What candidate k is accepted with, from its own text and its own verifier
\* answer alone: a score, REGEX_FALLBACK, or REGEX_ONLY when it is dropped
OwnVerdict(k) ==
    LET ai == scan.results[k].aiResult
    IN  IF VerifiedOk(ai)
        THEN IF ai.score > ACCEPT_THRESHOLD THEN ai.score ELSE REGEX_ONLY
        ELSE IF StrictMatches(scan.candidates[k]) THEN REGEX_FALLBACK ELSE REGEX_ONLY

\* The accepted results in candidate order, computed without any batching
BatchFreeResults ==
    LET n == Len(scan.candidates)
        F[k \in 0..n] ==
            IF k = 0 THEN <<>>
            ELSE IF OwnVerdict(k) # REGEX_ONLY
                 THEN Append(F[k - 1],
                          [type |-> PATTERNS[scan.candidates[k].pattern].type,
                           text |-> scan.candidates[k].content,
                           aiScore |-> OwnVerdict(k)])
                 ELSE F[k - 1]
    IN  F[n]

\* C11: the outcome of a finished scan is a function of the candidate list
\* and of each candidate's verifier answer only, the same for batches of 1
\* and for batches of 3: every candidate is decided once, the accepted
\* results are the candidates' own verdicts in candidate order, and
\* lastScanUsedAI tells whether some verdict came from the verifier.
C11_OutcomeIndependentOfBatchSize ==
    ScanFinished =>
        /\ Len(scan.results) = Len(scan.candidates)
        /\ SubSeq(detectionResults, scan.existing + 1, Len(detectionResults))
               = BatchFreeResults
        /\ lastScanUsedAI <=>
               \E k \in 1..Len(scan.candidates) : OwnVerdict(k) >= 0

\* A build with batches of 1 has finished a scan of four candidates, with a
\* verified acceptance, a verified rejection and a failed verification
C11_Witness ==
    /\ ScanFinished
    /\ batchSize = 1
    /\ Len(scan.candidates) = 4
    /\ Len(scan.events) = 4
    /\ \E k \in 1..4 : OwnVerdict(k) >= 0
    /\ \E k \in 1..4 : VerifiedOk(scan.results[k].aiResult) /\ OwnVerdict(k) = REGEX_ONLY
    /\ \E k \in 1..4 : scan.results[k].why = "failed"

\* The verifications the dispatcher is waiting for
Awaited == {k \in 1..Len(scan.slots) : scan.slots[k].pending}

\* C12: batches run one after another.  At most BATCH_SIZE verifications
\* are awaited at a time; while a batch is awaited, every candidate of the
\* earlier batches has its decision applied and the awaited candidates are
\* those of the one next batch; no decision is applied to a candidate whose
\* verification is still unresolved.
C12_BatchesStrictlySequential ==
    /\ Cardinality(Awaited) <= BATCH_SIZE
    /\ Awaited # {} => scan.pc = "awaitBatch"
    /\ scan.pc = "awaitBatch" =>
          /\ Len(scan.results) = scan.i
          /\ Len(scan.slots) <= BATCH_SIZE
          /\ \A k \in 1..Len(scan.slots) : scan.slots[k].cand = scan.i + k
    /\ \A r \in Decisions : r.why # "pending"

\* The second batch is awaited after a first batch of three in which one
\* verification answered, one failed and one ran into its deadline
C12_Witness ==
    /\ scan.pc = "awaitBatch"
    /\ scan.i = BATCH_SIZE
    /\ Awaited # {}
    /\ Len(scan.results) = BATCH_SIZE
    /\ {scan.results[k].why : k \in 1..BATCH_SIZE} = {"answer", "failed", "timeout"}

\* The value the sandbox computes for request r
OwnAnswers(r) ==
    IF r.action = "predict"
    THEN {[kind |-> "result", result |-> [text |-> r.text, of |-> r.id]]}
    ELSE IF r.action = "init"
    THEN {[kind |-> "success", success |-> "true"],
          [kind |-> "success", success |-> "false"]}
    ELSE {[kind |-> "pong"]}

BridgeErrors ==
    {[kind |-> "error", error |-> "Sandbox timeout"],
     [kind |-> "error", error |-> "Sandbox iframe not found"]}

\* C13: every sendToSandbox request has an id of its own; whatever the order
\* in which the sandbox's replies arrive, a request is resolved with nothing
\* but the reply computed for its own id (or with a bridge error); a message
\* whose id has no pending entry leaves the bridge as it is.
C13_ResponsesCorrelatedById ==
    /\ \A i, j \in 1..Len(requests) : requests[i].id = requests[j].id => i = j
    /\ \A n \in 1..Len(requests) :
          requests[n].value \in {NoValue} \cup BridgeErrors \cup OwnAnswers(requests[n])
    /\ \A id \in DOMAIN pendingRequests : requests[pendingRequests[id]].id = id
    /\ \A data \in responses \cup StrayMessages :
          data.id \notin DOMAIN pendingRequests =>
              OnWindowMessage(Offscreen, data) = Offscreen

\* The reply to the second request has resolved it while the first request,
\* sent earlier and answered by the sandbox, is still waiting for its reply;
\* the two requests are of the same kind
C13_Witness ==
    /\ Len(requests) = 2
    /\ requests[1].action = "predict" /\ requests[2].action = "predict"
    /\ requests[2].value \in OwnAnswers(requests[2])
    /\ requests[1].value = NoValue
    /\ \E data \in responses : data.id = requests[1].id

\* The load attempts that are running
InFlight == {k \in 1..Len(loads) : loads[k].phase \in {"load", "embed"}}

\* The callers that wait for a load
Waiting == {c \in 1..Len(calls) : calls[c].pc = "awaitInit"}

\* C14: loading is shared.  At most one load attempt runs at a time (so
\* use.load() and the embedding of the examples are in flight at most once);
\* every init or predict request that waits for a load waits for that one
\* running attempt, and loadingPromise is its promise.
C14_LoadSharedByConcurrentCallers ==
    /\ Cardinality(InFlight) <= 1
    /\ \A c \in Waiting : calls[c].on \in InFlight
    /\ \A k \in InFlight : loadingPromise = [kind |-> "pending", load |-> k]
    /\ modelReady => InFlight = {}

\* An init request and a predict request both wait for the first load
\* attempt, which has reached the embedding of the examples
C14_Witness ==
    /\ Len(loads) = 1 /\ loads[1].phase = "embed"
    /\ \E c, d \in Waiting :
          /\ calls[c].action = "init" /\ calls[d].action = "predict"
          /\ calls[c].on = 1 /\ calls[d].on = 1

\* The predict results the sandbox has replied with
PredictResults ==
    {calls[c].reply.result : c \in {d \in 1..Len(calls) : calls[d].reply.kind = "result"}}

\* C15 (as claimed): every predict result carries the confidence tier High
\* for a score above 0.7, Medium for a score above 0.5 and at most 0.7, Low
\* for a score of at most 0.5, and the text of the matched example.
C15_ThreeTiersAndMatchedExample ==
    \A r \in PredictResults :
        /\ r.confidence = IF r.score > HIGH_CONFIDENCE THEN "High"
                          ELSE IF r.score > MEDIUM_CONFIDENCE THEN "Medium"
                          ELSE "Low"
        /\ "matchedExample" \in DOMAIN r

\* A scan that has ended without extracting, recording or requesting
\* anything: detectionResults holds what it held before the scan resumed
AbortedCleanly(s, before) ==
    /\ ~s.isScanning /\ s.hasScanned
    /\ s.detectionResults = before
    /\ s.scan.pc = "idle" /\ s.scan.candidates = <<>> /\ s.scan.slots = <<>>
    /\ s.scan.events = <<>>
    /\ s.aiTimer = NO_TIMER
    /\ s.dom = dom /\ s.PATTERNS = <<>>

\* C16: when the config load has failed, PATTERNS is and stays empty and a
\* scan aborts before the extraction: a scan that waited for the load, and
\* every scan started afterwards, ends at once with isScanning false, zero
\* results of its own, no candidate and no verification request.  (While a
\* scan waits for the load, detectionResults can only hold what getResults
\* has collected from highlights already in the page.)
C16_EmptyBankAbortsScan ==
    /\ [](scan.pc = "awaitPatterns" =>
            /\ detectionResults \in {<<>>, ExistingHighlights(dom)}
            /\ AbortedCleanly(OnPatternsLoaded(St, <<>>), detectionResults))
    /\ []((patternsLoaded /\ PATTERNS = <<>>) =>
            /\ ~isScanning /\ scan.candidates = <<>> /\ scan.slots = <<>>
            /\ AbortedCleanly(scanAndHighlight(St), <<>>))
    /\ [][(patternsLoaded /\ PATTERNS = <<>>) => PATTERNS' = <<>>]_vars

\* The load has failed, the verifier is ready, the page holds a visible
\* keyword and a highlight of an earlier scan, and a scan has run and ended
C16_Witness ==
    /\ patternsLoaded /\ PATTERNS = <<>>
    /\ hasScanned /\ ~isScanning /\ detectionResults = <<>>
    /\ scan.pc = "idle" /\ scan.candidates = <<>>
    /\ aiState = "ready"
    /\ \E n \in 1..Len(dom) : dom[n].hl # "none"

\* The categories whose section of patterns.txt lists no keyword
EmptyCategories == {c \in 1..Len(patternsTxt) : patternsTxt[c].keywords = {}}

\* C17 (as claimed): a category with an empty keyword list never fires: no
\* candidate of any scan belongs to it and no result is recorded for it.
C17_EmptyCategoryNeverFires ==
    \A c \in EmptyCategories :
        /\ \A k \in 1..Len(scan.candidates) : scan.candidates[k].pattern # c
        /\ \A k \in 1..Len(detectionResults) :
              detectionResults[k].type # patternsTxt[c].name

\* C18: togglePause with isPaused false starts a scan in the same step:
\* isScanning is true when the listener returns, and unless a scan was
\* already in flight that scan is a new activation, which runs on from its
\* first await; a scan already in flight is left as it is.
C18_ResumeStartsScan ==
    LET ret == OnTogglePauseReturn(St, FALSE)
        end == OnTogglePause(St, FALSE)
    IN  /\ ret.isScanning /\ ~ret.isPaused
        /\ isScanning => /\ ret = [St EXCEPT !.isPaused = FALSE]
                         /\ end = ret
        /\ ~isScanning =>
              /\ ret.activeScans = activeScans + 1
              /\ ret.scan.pc = "awaitPatterns"
              /\ end = IF patternsLoaded THEN ScanBody(ret) ELSE ret
              /\ end.isScanning \/ end.hasScanned

\* The script started paused (no observer), the popup resumed it, and the
\* scan started by the resume is waiting for the verifier
C18_Witness ==
    /\ storedPaused /\ ~storagePending /\ ~isPaused
    /\ patternsLoaded /\ ~observing
    /\ isScanning /\ scan.pc = "awaitBatch"

\* C19: when no scan is in flight after a scan has completed, getResults
\* reports mode "Hybrid AI" exactly when some candidate of the most recent
\* scan was accepted by tier AI, and "Fallback Regex" otherwise.
C19_ModeReflectsLastScan ==
    (scan.pc = "idle" /\ hasScanned) =>
        (GetResultsResponse(St).mode = "Hybrid AI"
            <=> \E r \in Decisions : Tier(r) = "AI")

\* A finished scan with one candidate accepted by tier AI and one by the
\* strict fallback: the mode is "Hybrid AI"
C19_Witness ==
    /\ scan.pc = "idle" /\ hasScanned
    /\ GetResultsResponse(St).mode = "Hybrid AI"
    /\ \E r \in Decisions : Tier(r) = "AI"
    /\ \E r \in Decisions : Tier(r) = "StrictFallback"

\* The batches the loop has entered so far
BatchesStarted ==
    IF scan.pc = "awaitBatch" THEN scan.i \div batchSize + 1
    ELSE IF scan.pc = "idle"
    THEN (Len(scan.candidates) + batchSize - 1) \div batchSize
    ELSE 0

\* C20 (as claimed): a scanProgress event follows each completed batch and
\* carries the share of candidates processed so far, in 0..100 and never
\* decreasing; the event after the last batch reports 100.
C20_ProgressAfterEachBatchUpTo100 ==
    LET n == Len(scan.candidates)
        done == IF scan.pc = "awaitBatch" THEN scan.i \div batchSize
                ELSE (n + batchSize - 1) \div batchSize
    IN  scan.pc \in {"awaitBatch", "idle"} =>
          /\ Len(scan.events) = done
          /\ \A k \in 1..Len(scan.events) :
                scan.events[k].progress = Progress(Min({k * batchSize, n}), n)
          /\ (scan.pc = "idle" /\ n > 0) =>
                scan.events[Len(scan.events)].progress = 100

\* C20 (amended): a scanProgress event is sent when the loop enters a batch,
\* before its verifications are issued; event k carries the rounded share
\* of the candidates that the k-1 earlier batches hold, so the first event
\* reports 0, the values lie in 0..100 and never decrease, and the last
\* event reports the share processed before the last batch; nothing is
\* sent when the last batch has completed, nor in a scan without candidates.
C20_ProgressBeforeEachBatch ==
    LET n == Len(scan.candidates)
    IN  /\ Len(scan.events) = BatchesStarted
        /\ \A k \in 1..Len(scan.events) :
              /\ scan.events[k].progress = Progress((k - 1) * batchSize, n)
              /\ scan.events[k].progress \in 0..100
              /\ k > 1 => scan.events[k - 1].progress <= scan.events[k].progress
        /\ Len(scan.events) > 0 => scan.events[1].progress = 0
        /\ n = 0 => scan.events = <<>>

\* A scan of four candidates has ended: the events of its two batches
\* reported 0 and 75
C20_Witness ==
    /\ ScanFinished
    /\ Len(scan.candidates) = 4
    /\ Len(scan.events) = 2
    /\ scan.events[1].progress = 0
    /\ scan.events[2].progress = 75

\* The predictions of the in-page loader that have returned
LoaderPredictions ==
    { c \in 1..Len(loader.calls) :
        loader.calls[c].fn = "predict" /\ loader.calls[c].pc = "done" }

\* C21: for the fixed Example Bank, two predictions of identical input text
\* return the same category and the same score, whatever the loader's
\* lifecycle state was when each call was made.
C21_PredictDeterministic ==
    \A c, d \in LoaderPredictions :
        loader.calls[c].text = loader.calls[d].text
            => /\ loader.calls[c].result.result.type = loader.calls[d].result.result.type
               /\ loader.calls[c].result.result.score = loader.calls[d].result.result.score

\* The Euclidean norm of a vector of the model
Norm(a) == Sqrt(DotProduct(a, a, 1))

\* C24: cosineSimilarity returns 0 when either vector has norm exactly zero,
\* and otherwise the dot product divided by the product of the two norms.
C24_ZeroNormGivesZero ==
    similarity # NotComputed =>
        IF Norm(vecA) = 0 \/ Norm(vecB) = 0
        THEN similarity = Finite(0)
        ELSE similarity = Finite((DotProduct(vecA, vecB, 1) * 10000)
                                     \div (Norm(vecA) * Norm(vecB)))

\* C22: every started scan terminates: isScanning true leads to isScanning
\* false, also when the verifier never answers, because each verification
\* is abandoned when its 5-second deadline expires.
C22_EveryScanTerminates == isScanning ~> ~isScanning

\* A scan of two batches has ended although no verification was answered:
\* every candidate was decided on the expiry of its deadline
C22_Witness ==
    /\ ~isScanning /\ hasScanned /\ scan.pc = "idle"
    /\ Len(scan.results) > BATCH_SIZE
    /\ \A r \in Decisions : r.why = "timeout"

\* The document changes
Mutation == MutationAdd \/ MutationRemove \/ MutationOther

\* C23: whenever the session is not paused (startup over, no scan in
\* flight), a document mutation arms the debounce timer whose expiry starts
\* an automatic scan; also after a resume, and also when the content script
\* started in the paused state.
C23_MutationArmsAutoScan ==
    [][(Mutation /\ ~isPaused /\ ~isScanning /\ patternsLoaded /\ ~storagePending)
          => scanTimeout' = DEBOUNCE_TICKS]_vars

\* C25: pendingRequests holds an entry for a request id exactly while that
\* request is unresolved; no entry remains for a request whose promise has
\* been resolved, also when it was resolved at once because the sandbox
\* iframe is missing.
C25_EntryExactlyWhileUnresolved ==
    \A n \in 1..Len(requests) :
        requests[n].id \in DOMAIN pendingRequests <=> requests[n].value = NoValue

\* The decisions, the results and the flags a scan has produced
ScanOutcome == << scan.results, scan.slots, detectionResults, lastScanUsedAI,
                  isScanning, hasScanned, dom >>

\* A reply of the sandbox for a request the bridge has given up
LateReplies ==
    { data \in responses :
        \E n \in 1..Len(requests) :
            /\ requests[n].id = data.id
            /\ requests[n].value = [kind |-> "error", error |-> "Sandbox timeout"] }

\* C26: a verifier response that arrives after its candidate's deadline has
\* expired changes neither the candidate's decision nor detectionResults nor
\* lastScanUsedAI; in the offscreen bridge a response for an id removed by
\* the timeout resolves nothing.
C26_LateResponseHasNoEffect ==
    /\ [][LateAnswer => UNCHANGED ScanOutcome]_vars
    /\ [](\A data \in LateReplies :
             /\ data.id \notin DOMAIN pendingRequests
             /\ OnWindowMessage(Offscreen, data).requests = requests
             /\ OnWindowMessage(Offscreen, data).pendingRequests = pendingRequests)

\* The verifier's late answer for a candidate decided on its deadline has
\* arrived while the scan was still waiting for the rest of the batch
C26_Witness ==
    /\ scan.pc = "awaitBatch"
    /\ \E k \in 1..Len(scan.slots) :
          /\ scan.slots[k].why = "timeout"
          /\ scan.slots[k].cand \notin scan.abandoned

\* C27: the decisions of a scan are applied in the candidates' input order
\* and the results of the accepted candidates are appended to
\* detectionResults in that order, whatever the order in which the
\* verifier's responses arrived.
C27_ResultsInCandidateOrder ==
    /\ \A k \in 1..Len(scan.results) : scan.results[k].cand = k
    /\ \A r \in Decisions :
          r.shouldHighlight =>
             /\ r.entry \in (scan.existing + 1)..Len(detectionResults)
             /\ detectionResults[r.entry].text = CandOf(r).content
             /\ r.entry = scan.existing
                  + Cardinality({q \in Decisions : q.shouldHighlight /\ q.cand <= r.cand})

\* A finished scan with two accepted candidates of one batch where the
\* verifier answered for the later candidate first
C27_Witness ==
    /\ scan.pc = "idle" /\ hasScanned
    /\ \E r, q \in Decisions :
          /\ r.cand < q.cand /\ q.cand <= BATCH_SIZE
          /\ r.why = "answer" /\ q.why = "answer"
          /\ q.rank < r.rank
          /\ r.shouldHighlight /\ q.shouldHighlight
          /\ r.entry < q.entry

\* ------------------------------------------------------------------------
\* SpecAbort: one page load whose scans may abort, on an empty PATTERNS list
\* or on the TypeError that walking a document without body throws
\* ------------------------------------------------------------------------

AbortDocs == { <<NBoth, NBoth>>, <<NLong, NHidden>> }

InitAbort ==
    /\ hasBody \in BOOLEAN
    /\ PageStart(IF hasBody THEN AbortDocs ELSE { << >> },
                 {"absent", "notReady", "ready"})
    /\ storedPaused = FALSE
    /\ Shipped
    /\ OffscreenStart /\ iframeWindow
    /\ SandboxStart /\ libraries
    /\ LoaderStart
    /\ RouterStart /\ SafeWebStart
    /\ CosineIdle

SpecAbort == InitAbort /\ [][NextDispatch]_vars

\* Calling scanAndHighlight() now would pass the guard and run to its end
\* within the calling step
ScanRunsThrough == ~isScanning /\ scanAndHighlight(St).scan.pc = "idle"

\* The scan of s has ended as the finally block leaves it
EndedScan(s) ==
    /\ ~s.isScanning
    /\ s.hasScanned
    /\ Len(s.scan.ready) = 1
    /\ s.scan.ready[1].count = Len(s.detectionResults)
    /\ s.scan.ready[1].results = s.detectionResults
    /\ s.scan.ready[1].hasScanned

\* C29: every scan that passes the isScanning guard ends with isScanning
\* false, hasScanned true and exactly one resultsReady event whose count is
\* the number of results, also when it aborts on an empty PATTERNS list or
\* on an exception: a scan in flight holds the guard and has sent no event,
\* no scan is in flight while the guard is free, a scan that runs through
\* within one step and a scan whose last continuation runs both end so, and
\* hasScanned never returns to false.
C29_ScanEndsOnce ==
    /\ [](scan.pc # "idle" => isScanning /\ scan.ready = << >>)
    /\ [](scan.pc = "idle" => ~isScanning /\ Len(scan.ready) <= 1)
    /\ [](scan.pc = "idle" => (hasScanned <=> Len(scan.ready) = 1))
    /\ [](ScanRunsThrough => EndedScan(scanAndHighlight(St)))
    /\ [][(scan.pc # "idle" /\ scan'.pc = "idle") => EndedScan(St)']_vars
    /\ [][hasScanned => hasScanned']_vars

\* A scan requested on a document without body has ended in the catch and
\* finally blocks: one resultsReady event with count 0
C29_Witness ==
    /\ ~hasBody /\ Len(PATTERNS) > 0
    /\ ~isScanning /\ hasScanned
    /\ scan.ready = << [count |-> 0, results |-> << >>, hasScanned |-> TRUE] >>

\* C28: a mutation observed while a scan is in flight or while the session
\* is paused arms no timer and queues no deferred scan: it changes neither
\* the debounce timer nor the scan state, and the timer is armed only by a
\* step that ends with no scan in flight and the session not paused.
C28_DroppedMutationArmsNothing ==
    /\ [][(Mutation /\ (isPaused \/ isScanning))
             => UNCHANGED << scanTimeout, scan, activeScans, isScanning, isPaused,
                             hasScanned, detectionResults, lastScanUsedAI >>]_vars
    /\ [][(scanTimeout' = DEBOUNCE_TICKS /\ scanTimeout # DEBOUNCE_TICKS)
             => ~isPaused' /\ ~isScanning']_vars

\* The observer is connected and the page has just changed while the scan
\* waits for its first batch: no timer is pending
C28_Witness ==
    /\ observing /\ isScanning /\ scan.pc = "awaitBatch"
    /\ scan.results = << >>
    /\ sinceMutation = 0
    /\ scanTimeout = NO_TIMER

\* C30: the found value of each scanProgress event is the length of
\* detectionResults when the event is sent, also when the document holds
\* highlights from earlier scans.  The event is sent at the top of the batch
\* loop and detectionResults does not change until the batch is decided, so
\* while a scan waits for a batch its latest event carries the current
\* length.
C30_FoundIsRunningTotal ==
    scan.pc = "awaitBatch"
        => scan.events[Len(scan.events)].found = Len(detectionResults)

\* ------------------------------------------------------------------------
\* The sandbox verifier after its load
\* ------------------------------------------------------------------------

\* Load attempts that are in flight
LoadsInFlight == {k \in 1..Len(loads) : loads[k].phase \in {"load", "embed"}}

\* C31: once the sandbox verifier is ready it stays ready, no load attempt
\* is in flight or started (the examples are not embedded again) and
\* exampleEmbeddings is not assigned again, whatever init, predict and ping
\* messages follow, overlapping predicts included.
C31_EmbeddingsWriteOnce ==
    /\ [](modelReady => LoadsInFlight = {} /\ loadingPromise = NullPromise)
    /\ [](modelReady => exampleEmbeddings # 0
                          /\ loads[exampleEmbeddings].phase = "ready")
    /\ [][modelReady => /\ modelReady'
                        /\ exampleEmbeddings' = exampleEmbeddings
                        /\ loads' = loads]_vars

\* The verifier is ready after a predict message started its load, an init
\* message has been answered and two predict calls are computing at the same
\* time
C31_Witness ==
    /\ modelReady
    /\ Cardinality({c \in 1..Len(calls) : calls[c].pc = "embedding"}) >= 2
    /\ \E c \in 2..Len(calls) : calls[c].action = "init" /\ calls[c].pc = "done"

\* Call c has been answered with the failure of a load
LoadFailureReply(c) ==
    /\ calls[c].pc = "done"
    /\ \/ calls[c].reply = [kind |-> "success", success |-> FALSE]
       \/ calls[c].reply = [kind |-> "error", error |-> "Model failed to load"]

\* C32: after a failed load the sandbox verifier is retryable: once a
\* request has been answered with the failure (an error result, no
\* exception) and no load attempt runs, modelReady is false, no load is
\* recorded in loadingPromise and the next init or predict request starts a
\* fresh attempt.
C32_FailedLoadRetryable ==
    (/\ \E c \in 1..Len(calls) : LoadFailureReply(c)
     /\ ~modelReady
     /\ LoadsInFlight = {})
        => /\ loadingPromise = NullPromise
           /\ initModel(Sandbox).st.loadingPromise # loadingPromise

\* ------------------------------------------------------------------------
\* SpecDetach: one page load during which the page may remove text nodes,
\* also while a scan waits for its verifier
\* ------------------------------------------------------------------------

DetachDocs == { <<NBoth, NBoth>>, <<NHurry, NLong>> }

InitDetach ==
    /\ Start(DetachDocs, {"notReady", "ready"})
    /\ storedPaused = FALSE
    /\ Shipped

NextDetach ==
    \/ NextDispatch
    \/ MutationRemove

SpecDetach == InitDetach /\ [][NextDetach]_vars

\* Node n has left the document without becoming a highlight
Detached(n) == ~dom[n].attached /\ dom[n].hl = "none"

\* The decision recorded for candidate r has its entry in detectionResults
EntryOf(r) ==
    LET res == scan.results[r]
        cand == scan.candidates[res.cand]
    IN  /\ res.entry \in 1..Len(detectionResults)
        /\ detectionResults[res.entry] =
               [type |-> PATTERNS[cand.pattern].type, text |-> cand.content,
                aiScore |-> res.finalScore]

\* C33: a candidate whose text node has left the document before its result
\* is applied gets no highlight and raises nothing: a node without parent
\* is never turned into a highlight, every decision to highlight is recorded
\* whatever became of the node, and a scan that had candidates ends with
\* every one of them decided, in order.
C33_DetachedNodeSkipped ==
    /\ [][\A n \in 1..Len(dom) : ~dom[n].attached => dom'[n] = dom[n]]_vars
    /\ [](\A r \in 1..Len(scan.results) :
              /\ scan.results[r].cand = r
              /\ scan.results[r].shouldHighlight => EntryOf(r))
    /\ [](scan.pc = "idle" /\ hasScanned /\ Len(PATTERNS) > 0
              => Len(scan.results) = Len(scan.candidates))

\* The page removed the first node while the scan waited for its first
\* batch: the scan has ended, the decisions to highlight the candidates of
\* that node are recorded without a highlight, and a later candidate of the
\* batch has its highlight
C33_Witness ==
    /\ scan.pc = "idle" /\ hasScanned
    /\ Len(scan.results) = 4
    /\ Detached(1)
    /\ scan.candidates[1].node = 1 /\ scan.results[1].shouldHighlight
    /\ scan.candidates[3].node = 2 /\ scan.results[3].shouldHighlight
    /\ dom[2].hl # "none"

\* ------------------------------------------------------------------------
\* The category matchers between tests
\* ------------------------------------------------------------------------

\* Does the regex of kws match anywhere in text?  (no state involved)
Matches(kws, text) ==
    IF kws = {}
    THEN \E q \in 0..Len(text) : WordBoundary(text, q)
    ELSE \E p \in 1..Len(text) : text[p] \in kws

\* Texts a matcher may be tested against next
ProbeTexts ==
    { <<"hurry">>, <<"stock">>, <<"hurry", "stock">>, <<"stock", "hurry">>,
      <<"welcome">>, <<"see", "privacy">> }

\* C34: the outcome of testing a category's broad or strict matcher against
\* a text depends only on the matcher and the text, whatever the matcher
\* was tested against before: in every state the test as the scan makes it
\* (match position reset, then test) gives for each text what the regex
\* gives on its own, every candidate of a scan matches its category's broad
\* regex, and every decision made by the strict matcher is the match of the
\* candidate's text.
C34_MatchersStateless ==
    /\ \A p \in 1..Len(PATTERNS) : \A t \in ProbeTexts :
           /\ RegexTest(PATTERNS[p].broadRegex, t, BroadStart(PATTERNS[p])).ok
                  = Matches(PATTERNS[p].broadRegex, t)
           /\ RegexTest(PATTERNS[p].strictRegex, t, StrictStart(PATTERNS[p])).ok
                  = Matches(PATTERNS[p].strictRegex, t)
    /\ \A c \in 1..Len(scan.candidates) :
           Matches(PATTERNS[scan.candidates[c].pattern].broadRegex,
                   scan.candidates[c].content)
    /\ \A r \in 1..Len(scan.results) :
           UsesStrict(scan.results[r].aiResult)
               => (scan.results[r].shouldHighlight
                     <=> Matches(PATTERNS[CandOf(scan.results[r]).pattern].strictRegex,
                                 CandOf(scan.results[r]).content))

\* Two candidates of the same category in different nodes have both been
\* decided by the strict matcher, which was left with a match position
\* beyond 0 each time, as was the broad matcher
C34_Witness ==
    \E r1, r2 \in 1..Len(scan.results) :
        /\ r1 < r2
        /\ CandOf(scan.results[r1]).pattern = CandOf(scan.results[r2]).pattern
        /\ CandOf(scan.results[r1]).node # CandOf(scan.results[r2]).node
        /\ UsesStrict(scan.results[r1].aiResult) /\ scan.results[r1].shouldHighlight
        /\ UsesStrict(scan.results[r2].aiResult) /\ scan.results[r2].shouldHighlight
        /\ PATTERNS[CandOf(scan.results[r1]).pattern].strictLastIndex > 0
        /\ PATTERNS[CandOf(scan.results[r1]).pattern].broadLastIndex > 0

\* ------------------------------------------------------------------------
\* Startup with a persisted pause flag
\* ------------------------------------------------------------------------

\* The step in which loadPatterns() settles and the startup callback runs
ConfigLoadEnds == ~patternsLoaded /\ patternsLoaded'

\* C35: if the persisted pause flag is true when the content script starts,
\* no initial scan runs and the mutation observer triggers none, whatever
\* the order in which the storage read and the config load complete: the
\* startup callback starts no scan and the observer is never connected.
C35_PersistedPauseHoldsAtStartup ==
    /\ [](storedPaused => ~observing)
    /\ [][(storedPaused /\ ConfigLoadEnds /\ ~isScanning)
             => (~isScanning' /\ hasScanned' = hasScanned /\ scan' = scan)]_vars

\* ------------------------------------------------------------------------
\* SpecQuiet: one page load left to itself: no message from the popup, no
\* mutation by the page, no pause change.  Timers fire and pending
\* promises of the page settle.
\* ------------------------------------------------------------------------

QuietDocs == { <<NBoth, NBoth>>, <<NLong, NHidden>>, <<NHurry, NLegalKw>> }

InitQuiet ==
    /\ Start(QuietDocs, {"notReady", "ready"})
    /\ storedPaused = FALSE
    /\ Shipped

NextQuiet ==
    \/ PatternsLoaded
    \/ DebounceFire
    \/ AIReady
    \/ VerifierAnswer
    \/ VerifierFails
    \/ AITimeout
    \/ Tick

\* WF_vars(DebounceFire): the callback of an expired debounce timer runs
DebounceFires == []<>(scanTimeout # 0) \/ []<><<DebounceFire>>_vars

SpecQuiet ==
    /\ InitQuiet /\ [][NextQuiet]_vars
    /\ WF_vars(Tick)
    /\ WF_vars(PatternsLoaded)
    /\ AITimeoutFires
    /\ DebounceFires

\* No scan is in flight and no debounce timer is pending
Quiescent == ~isScanning /\ scan.pc = "idle" /\ scanTimeout = NO_TIMER

\* C36: the highlights a scan makes do not keep scans going for ever: with
\* no mutation by the page, no request and no pause change, the session
\* reaches a state with no scan in flight and no debounce timer pending,
\* and stays there.
C36_HighlightsEndScanning == <>[]Quiescent

\* An automatic scan has followed the scan whose highlights armed the
\* debounce timer (it found those highlights in the document), and the
\* session is at rest
C36_Witness ==
    /\ Quiescent /\ hasScanned
    /\ scan.existing > 0
    /\ sinceMutation = DEBOUNCE_TICKS

\* ------------------------------------------------------------------------
\* Scanning a document again
\* ------------------------------------------------------------------------

\* A scan has ended, nothing is in flight, and the verifier has not been in
\* use: the candidates of that scan and of a scan made now are all decided
\* by the strict matcher
AtRestAfterScan ==
    /\ hasScanned /\ ~isScanning /\ scan.pc = "idle"
    /\ patternsLoaded
    /\ aiState # "ready"
    /\ Len(scan.ready) = 1

\* C37: scanning an unchanged document again reports the same result count:
\* a scan made right after a finished scan, decided the same way and with no
\* mutation by the page in between, ends with a resultsReady count equal to
\* that of the first, also when a text node matched more than one category.
C37_RescanSameCount ==
    AtRestAfterScan =>
        LET again == scanAndHighlight(St)
        IN  /\ again.scan.pc = "idle"
            /\ Len(again.scan.ready) = 1
            /\ again.scan.ready[1].count = scan.ready[1].count

\* ------------------------------------------------------------------------
\* SpecRouter: the background router on its own.  Promises of the platform
\* settle.
\* ------------------------------------------------------------------------

InitRouter ==
    /\ RestIdle /\ LoaderStart /\ CosineIdle /\ SafeWebStart
    /\ router \in {RouterIdle("none"), RouterIdle("open")}

NextRouter ==
    \/ RouterMessage
    \/ RouterSetupContexts
    \/ RouterDocumentCreated
    \/ RouterPredictContexts
    \/ RouterOffscreenResponse
    \/ RouterOffscreenError

SpecRouter ==
    /\ InitRouter /\ [][NextRouter]_vars
    /\ WF_vars(RouterSetupContexts)
    /\ WF_vars(RouterDocumentCreated)
    /\ WF_vars(RouterPredictContexts)
    /\ WF_vars(RouterOffscreenResponse \/ RouterOffscreenError)

\* Request k is a predict request the router has received
PredictReceived(k) == Len(router.reqs) >= k /\ router.reqs[k].action = "predict"

\* Request k has its response
Answered(k) == Len(router.reqs) >= k /\ Len(router.reqs[k].responses) = 1

\* C38: every predict request the background router receives from a content
\* script gets exactly one response, the verifier's answer or an error value
\* with fallback true, also when several requests arrive before the
\* offscreen document exists: no request is answered twice, and each is
\* answered in the end.
C38_EveryPredictAnsweredOnce ==
    /\ [](\A k \in 1..Len(router.reqs) :
              /\ Len(router.reqs[k].responses) <= 1
              /\ \A i \in 1..Len(router.reqs[k].responses) :
                     router.reqs[k].action = "predict"
                         => router.reqs[k].responses[i] \in {OffscreenAnswer, ErrorFallback})
    /\ \A k \in 1..MaxRouterRequests :
           PredictReceived(k) ~> Answered(k)

\* ------------------------------------------------------------------------
\* The in-page loader: what a resolved load means
\* ------------------------------------------------------------------------

\* The calls of loadUSEModel (SafeWebAI.loadModel, the auto-load) that have
\* resolved
ResolvedLoads ==
    { c \in 1..Len(loader.calls) :
        /\ loader.calls[c].fn \in {"loadModel", "auto"}
        /\ loader.calls[c].pc = "done"
        /\ loader.calls[c].result.kind = "resolved" }

\* C39: whenever a call of loadUSEModel resolves instead of throwing, the
\* model is ready at that moment (useModel and exampleEmbeddings are both
\* set): for the caller that started the load, for callers that waited on a
\* load in flight, and for calls made after an earlier attempt failed.
C39_ResolvedLoadMeansReady ==
    \A c \in ResolvedLoads : loader.calls[c].result.ready

\* ------------------------------------------------------------------------
\* SpecSafeWeb: the Safe Web v2.0 content script on its own
\* ------------------------------------------------------------------------

SafeWebDocs ==
    { << [content |-> <<"hurry">>, attached |-> TRUE] >>,
      << [content |-> <<"hurry", "fast">>, attached |-> TRUE],
         [content |-> <<"welcome">>, attached |-> TRUE] >> }

InitSafeWeb ==
    /\ RestIdle /\ LoaderStart /\ CosineIdle /\ RouterStart
    /\ \E doc \in SafeWebDocs : \E enabled \in BOOLEAN :
           safeWeb = SafeWebPage(doc, enabled)

NextSafeWeb ==
    \/ SafeWebTimer
    \/ SafeWebScanMessage
    \/ SafeWebPrediction
    \/ SafeWebNotified

SpecSafeWeb == InitSafeWeb /\ [][NextSafeWeb]_vars

\* No two entries of results are for the same text node and pattern
OnePerCandidate(results) ==
    \A i, j \in 1..Len(results) :
        (results[i].node = results[j].node /\ results[i].pattern = results[j].pattern)
            => i = j

\* C40: in the Safe Web v2.0 content script the results returned for a scan
\* request are those of one scan alone: neither detectionResults nor the
\* response to a scan request holds two entries for the same text node and
\* pattern, also when a scan request arrives while the timer-started scan
\* awaits predictions.
C40_OneEntryPerCandidate ==
    /\ OnePerCandidate(safeWeb.detectionResults)
    /\ \A a \in 1..Len(safeWeb.scans) :
           \A i \in 1..Len(safeWeb.scans[a].response) :
               OnePerCandidate(safeWeb.scans[a].response[i].results)

====
